---- MODULE Spec2Model ----
(***************************************************************************)
(* Singing Clock: the commit scorer (scan.py score_commit, enrich_score),  *)
(* the cache and history files (load_*, save_*, record_history) and the    *)
(* scan trigger of the local server (server.py Handler.handle_scan).       *)
(*                                                                         *)
(* Python numbers that may be fractional (a commit's total is an int or    *)
(* the float 0.5) are held in fixed point: the integer n stands for        *)
(* n / Unit.                                                               *)
(***************************************************************************)
EXTENDS Integers, Sequences, FiniteSets, TLC

VARIABLES
    msg,          \* score_commit: the message being scored
    scoreResult,  \* score_commit: the (total, scores) it returned
    rawCats,      \* enrich_score: the category -> hit-count map passed in
    enrichResult, \* enrich_score: the (total, cats) it returned
    loadKind,     \* load_*: which file is loaded (history, score, diffstat, enrich)
    loadFile,     \* load_*: what the file holds when it is loaded
    loadResult,   \* load_*: what the load returned or raised
    historyFile,  \* history.json
    histCall,     \* record_history: the last call (loaded list, new entry, result)
    histClock,    \* record_history: the time of the next call
    disk,         \* save_*: the cache file on disk
    saveKind,     \* save_*: which cache the file belongs to
    savePc,       \* save_*: idle, open, write or crashed
    saveCache,    \* save_*: the in-memory cache being saved
    savePrev,     \* save_*: the file as it was before the save began
    saveCount,    \* save_*: the saves begun so far
    scan_running, \* server: the scan_running flag
    scan_lock,    \* server: who holds scan_lock ("free", "handler" or a thread)
    last_scan_result, \* server: the outcome of the last finished run
    hpc,          \* server: where the request handler stands in handle_scan
    hresp,        \* server: the response of the last /api/scan request
    threads,      \* server: the position of each run_scan thread started
    nreq,         \* server: the /api/scan requests received so far
    harrived,     \* server: scan_running as it was when the last request arrived
    wTotal,       \* apply_diffstat_weight: the total passed in
    wCats,        \* apply_diffstat_weight: the caller's category map
    wDiffstat,    \* apply_diffstat_weight: the diffstat passed in
    wResult,      \* apply_diffstat_weight: what the call returned
    scored,       \* main: the scored commits of the run
    monthIdx,     \* main: the month the aggregation loop stands at
    cum_commits,  \* main: the running commit count
    cum_capability, \* main: the running capability sum
    monthly_data, \* main: the monthly series built so far
    runArgs,      \* run: --enrich given, ANTHROPIC_API_KEY set
    runCommits,   \* run: the commits extracted, oldest first (commits in main)
    enrich_cache, \* run: the enrichment cache in memory
    scoreCache,   \* run: the score cache in memory (cache in main)
    runPc,        \* run: enrich, attempt, score, done, raised, exited or (the process over) ended
    uncached,     \* enrich_commits: the commits to classify
    batch_start,  \* enrich_commits: the start of the current batch
    attempt,      \* enrich_commits: the attempt number of the batch
    fellBack,     \* the hashes whose cache entry a fallback of enrich_commits wrote,
                  \* over all runs (the entries written at lines 981, 1053 and 1074)
    scoredRun,    \* run: the commits scored so far by the loop
    runNo,        \* run: the number of the run (1 for the first)
    attempt_log,  \* enrich_commits: per batch, the classifier calls made
    sent,         \* enrich_commits: the hashes of the batches sent to the classifier
    enrich_at_call, \* enrich_commits: the enrichment cache as it was passed in
    settings,     \* the module globals that apply_config sets (the scoring
                  \* constants, CATEGORIES, the level sets) in the running process
    score_file,   \* score_cache.json: the mapping load_score_cache gives of it
    enrich_file,  \* enrich_cache.json: the mapping load_enrich_cache gives of it
    fitInput,     \* fit_models: the monthly series passed in
    fitResult     \* fit_models: the models returned, or the exception raised

scoreVars == <<msg, scoreResult, rawCats, enrichResult>>
loadVars == <<loadKind, loadFile, loadResult>>
historyVars == <<historyFile, histCall, histClock>>
saveVars == <<disk, saveKind, savePc, saveCache, savePrev, saveCount>>
serverVars ==
    <<scan_running, scan_lock, last_scan_result, hpc, hresp, threads, nreq, harrived>>
weightVars == <<wTotal, wCats, wDiffstat, wResult>>
monthVars == <<scored, monthIdx, cum_commits, cum_capability, monthly_data>>
\* what a run records of its calls
traceVars == <<runNo, attempt_log, sent, enrich_at_call>>
\* what outlives a run (the files, the commits of the repositories) and the
\* configuration the run applied
fileVars == <<settings, score_file, enrich_file>>
runVars ==
    <<runArgs, runCommits, enrich_cache, scoreCache, runPc, uncached, batch_start, attempt,
      fellBack, scoredRun, traceVars, fileVars>>
fitVars == <<fitInput, fitResult>>
\* the variables of the scorer, the files and the server together
baseVars == <<scoreVars, loadVars, historyVars, saveVars, serverVars>>
\* the variables of the later stages of a run
stageVars == <<weightVars, monthVars, runVars, fitVars>>

-----------------------------------------------------------------------------
(* Bounds of the model *)

\* most patterns of one category that a modelled message matches
MaxHits == 4
\* most categories in which a modelled message matches a pattern
MaxCatsHit == 2
\* most keys of a map passed to enrich_score
MaxRawCats == 2
\* largest hit count of a map passed to enrich_score
MaxRawHit == 5
\* commit hashes that a modelled cache file may hold
MaxHashes == 2
\* most record_history calls of one behaviour
MaxScans == 3
\* most cache saves of one behaviour
MaxSaves == 2
\* most /api/scan requests of one behaviour
MaxRequests == 3
\* most scored commits of one aggregated run
MaxScored == 3
\* most months of a series passed to fit_models
MaxFitMonths == 10
\* most runs of main of one behaviour
MaxRuns == 2

-----------------------------------------------------------------------------
(* Fixed point *)

Unit == 2 * 1000
Half == Unit \div 2

Min(a, b) == IF a < b THEN a ELSE b
Max(a, b) == IF a > b THEN a ELSE b

RECURSIVE SumOver(_, _)
\* sum of f[x] for x in the finite set S
SumOver(f, S) ==
    IF S = {} THEN 0
    ELSE LET x == CHOOSE y \in S : TRUE
         IN  f[x] + SumOver(f, S \ {x})

EmptyMap == [x \in {} |-> 0]
\* f with key k set to v
Put(f, k, v) == [x \in DOMAIN f \cup {k} |-> IF x = k THEN v ELSE f[x]]
\* Python's None
None == "None"

-----------------------------------------------------------------------------
(* The rubric: scan.py CATEGORIES *)

Categories ==
    {"foundation", "elements", "agents", "self_modify", "meta",
     "ecosystem", "safety", "integration", "aql"}

Weight ==
    [c \in Categories |->
        CASE c = "foundation"  -> 1
          [] c = "elements"    -> 2
          [] c = "agents"      -> 3
          [] c = "self_modify" -> 5
          [] c = "meta"        -> 5
          [] c = "ecosystem"   -> 3
          [] c = "safety"      -> 2
          [] c = "integration" -> 2
          [] c = "aql"         -> 4]

\* the cap on the patterns counted per category: min(hits, 3)
HitCap == 3
\* the flat bonus of a merge/feature message whose categories sum to zero
FlatBonus == 2

-----------------------------------------------------------------------------
(* Messages.  score_commit reads a message only through regex searches and *)
(* substring tests, so a message is modelled by their outcomes:            *)
(*   hits[c]  the number of category c's compiled patterns that match,     *)
(*   merge    "merge pull request" in msg_lower,                           *)
(*   feat     "feat" in msg_lower,                                         *)
(*   feature  "feature" in msg_lower (which contains "feat").              *)
(***************************************************************************)

HitVectors ==
    UNION {{[c \in Categories |-> IF c \in S THEN f[c] ELSE 0] :
                f \in [S -> 1..MaxHits]} :
           S \in {T \in SUBSET Categories : Cardinality(T) <= MaxCatsHit}}

Messages ==
    {m \in [hits : HitVectors, merge : BOOLEAN, feat : BOOLEAN, feature : BOOLEAN] :
        m.feature => m.feat}

NoMsg == [hits |-> [c \in Categories |-> 0], merge |-> FALSE, feat |-> FALSE,
          feature |-> FALSE]

\* An empty pattern list, and sum(1 for p in cat["compiled"] if p.search(msg_lower))
\* for category c of CATEGORIES as it stands: the patterns of a category are
\* named by the built-in category whose list they are, whatever the name and
\* the weight the category carries
NoPatterns == "[]"
Hits(m, c) ==
    LET p == settings.categories[c].patterns
    IN  IF p \in DOMAIN m.hits THEN m.hits[p] ELSE 0

\* the categories with at least one matching pattern
Matched(m) == {c \in DOMAIN settings.categories : Hits(m, c) > 0}

\* "merge pull request" in msg_lower and ("feat" in msg_lower or "feature" in msg_lower)
MergeFeatSignal(m) == m.merge /\ (m.feat \/ m.feature)

\* cat["weight"] * min(hits, 3)
CategoryScore_NoCap(c, hits) == settings.categories[c].weight * hits
CategoryScore(c, hits) == settings.categories[c].weight * Min(hits, HitCap)

\* int(total * 1.5) if total > 0 else 2, for the integer total of the loop
MergeBonus(total) == IF total > 0 THEN (3 * total) \div 2 ELSE FlatBonus

\* if total == 0: total = 0.5 (the result in fixed point)
ZeroFloor_Unmatched(m, total) == IF Matched(m) = {} THEN Half ELSE total * Unit
ZeroFloor(m, total) == IF total = 0 THEN Half ELSE total * Unit

score_commit(m) ==
    LET scores == [c \in Matched(m) |-> CategoryScore(c, Hits(m, c))]
        summed == SumOver(scores, DOMAIN scores)
        total  == IF MergeFeatSignal(m) THEN MergeBonus(summed) ELSE summed
    IN  [total |-> ZeroFloor(m, total), cats |-> scores]

-----------------------------------------------------------------------------
(* enrich_score *)

UnknownNames == {"testing", "nonexistent"}
Names == Categories \cup UnknownNames

RawInputs ==
    UNION {[S -> 0 - 1 .. MaxRawHit] :
           S \in {T \in SUBSET Names : Cardinality(T) <= MaxRawCats}}

\* int(hits) of an integer hit count
PyInt(h) == h

\* max(1, min(3, int(hits)))
ClampHits_NoFloor(h) == Min(HitCap, PyInt(h))
ClampHits(h) == Max(1, Min(HitCap, PyInt(h)))

\* if cat_name not in CATEGORIES: continue
KnownNames(raw) == {n \in DOMAIN raw : n \in DOMAIN settings.categories}

enrich_score(raw) ==
    LET cats  == [c \in KnownNames(raw) |-> settings.categories[c].weight * ClampHits(raw[c])]
        total == SumOver(cats, DOMAIN cats)
    IN  [total |-> IF total = 0 THEN Half ELSE total * Unit, cats |-> cats]

-----------------------------------------------------------------------------
(* The scorer as a state machine: a message (or a raw map) is drawn, then  *)
(* scored.                                                                 *)

NoResult == [total |-> 0, cats |-> EmptyMap, done |-> FALSE]
Done(r) == [total |-> r.total, cats |-> r.cats, done |-> TRUE]

ScoreIdle ==
    /\ msg = NoMsg
    /\ scoreResult = NoResult
    /\ rawCats = EmptyMap
    /\ enrichResult = NoResult

ScoreInit ==
    /\ scoreResult = NoResult
    /\ enrichResult = NoResult
    /\ \/ msg \in Messages /\ rawCats = EmptyMap
       \/ msg = NoMsg /\ rawCats \in RawInputs

ScoreCommit ==
    /\ ~scoreResult.done
    /\ scoreResult' = Done(score_commit(msg))
    /\ UNCHANGED <<msg, rawCats, enrichResult>>

EnrichScore ==
    /\ ~enrichResult.done
    /\ enrichResult' = Done(enrich_score(rawCats))
    /\ UNCHANGED <<msg, rawCats, scoreResult>>

-----------------------------------------------------------------------------
(* JSON values and files.                                                  *)
(*                                                                         *)
(* A value inside a cache entry is [k, n]: k is its JSON kind, n its value *)
(* when it is a number.  An entry is [isdict, f]: f maps its keys to       *)
(* values when it is a JSON object.  A top-level value is [t, items, v,    *)
(* entries]: a list with its items, or an object with the value of its     *)
(* "_v" key (NoVersion when the key is absent) and its other keys.         *)
(* A file is [kind, json]:                                                 *)
(*   missing     exists() is false                                         *)
(*   unreadable  read_text() raises OSError                                *)
(*   bad_utf8    the bytes are no UTF-8: read_text() raises                *)
(*               UnicodeDecodeError                                        *)
(*   bad_json    the text is no JSON (this includes an empty or truncated  *)
(*               file): json.loads raises JSONDecodeError                  *)
(*   huge_int    the text holds an integer of more digits than int() takes *)
(*               (sys.int_info.default_max_str_digits, 4300): json.loads   *)
(*               raises ValueError                                         *)
(*   too_deep    the text nests lists or objects deeper than the           *)
(*               interpreter's recursion limit: json.loads raises          *)
(*               RecursionError                                            *)
(*   json        json.loads returns the value json                         *)
(***************************************************************************)

Num(n) == [k |-> "num", n |-> n]
Str == [k |-> "str", n |-> 0]
Obj == [k |-> "dict", n |-> 0]

DictEntry(f) == [isdict |-> TRUE, f |-> f]
StrEntry == [isdict |-> FALSE, f |-> EmptyMap]

\* dict.get("_v") of an object without the key
NoVersion == 0
SCORE_CACHE_VERSION == 3
DIFFSTAT_CACHE_VERSION == 1
ENRICH_CACHE_VERSION == 1

JList(items) == [t |-> "list", items |-> items, v |-> NoVersion, entries |-> EmptyMap]
JDict(v, entries) == [t |-> "dict", items |-> <<>>, v |-> v, entries |-> entries]
JOther == [t |-> "other", items |-> <<>>, v |-> NoVersion, entries |-> EmptyMap]

MissingFile == [kind |-> "missing", json |-> JOther]
BadFile(kind) == [kind |-> kind, json |-> JOther]
JsonFile(j) == [kind |-> "json", json |-> j]

\* an in-memory cache: the dict's "_v" (NoVersion when absent) and its commit keys
Cache(v, entries) == [v |-> v, entries |-> entries]
EmptyCache == Cache(NoVersion, EmptyMap)
CacheOf(j) == Cache(j.v, j.entries)

Returned(value) == [raised |-> None, value |-> value, done |-> TRUE]
Raised(exc) == [raised |-> exc, value |-> EmptyCache, done |-> TRUE]

\* Path.read_text() followed by json.loads(): the exception raised, or None
ReadJsonError(file) ==
    CASE file.kind = "unreadable" -> "OSError"
      [] file.kind = "bad_utf8"   -> "UnicodeDecodeError"
      [] file.kind = "bad_json"   -> "JSONDecodeError"
      [] file.kind = "huge_int"   -> "ValueError"
      [] file.kind = "too_deep"   -> "RecursionError"
      [] OTHER                    -> None

\* except (json.JSONDecodeError, OSError)
CaughtOnLoad == {"JSONDecodeError", "OSError"}

\* data.get("_v") == <current version>
VersionMatches(j, current) == j.v = current

load_history(file) ==
    IF file.kind = "missing" THEN Returned(<<>>)
    ELSE LET exc == ReadJsonError(file)
         IN  IF exc = None
             THEN IF file.json.t = "list" THEN Returned(file.json.items)
                  ELSE Returned(<<>>)
             ELSE IF exc \in CaughtOnLoad THEN Returned(<<>>)
             ELSE Raised(exc)

load_score_cache(file) ==
    IF file.kind = "missing" THEN Returned(EmptyCache)
    ELSE LET exc == ReadJsonError(file)
         IN  IF exc = None
             THEN IF file.json.t = "dict" THEN Returned(CacheOf(file.json))
                  ELSE Returned(EmptyCache)
             ELSE IF exc \in CaughtOnLoad THEN Returned(EmptyCache)
             ELSE Raised(exc)

load_diffstat_cache(file) ==
    IF file.kind = "missing" THEN Returned(EmptyCache)
    ELSE LET exc   == ReadJsonError(file)
             fresh == Cache(DIFFSTAT_CACHE_VERSION, EmptyMap)
         IN  IF exc = None
             THEN IF file.json.t = "dict"
                     /\ VersionMatches(file.json, DIFFSTAT_CACHE_VERSION)
                  THEN Returned(CacheOf(file.json))
                  ELSE Returned(fresh)
             ELSE IF exc \in CaughtOnLoad THEN Returned(fresh)
             ELSE Raised(exc)

load_enrich_cache(file) ==
    LET fresh == Cache(ENRICH_CACHE_VERSION, EmptyMap)
    IN  IF file.kind = "missing" THEN Returned(fresh)
        ELSE LET exc == ReadJsonError(file)
             IN  IF exc = None
                 THEN IF file.json.t = "dict"
                         /\ VersionMatches(file.json, ENRICH_CACHE_VERSION)
                      THEN Returned(CacheOf(file.json))
                      ELSE Returned(fresh)
                 ELSE IF exc \in CaughtOnLoad THEN Returned(fresh)
                 ELSE Raised(exc)

-----------------------------------------------------------------------------
(* The files a load may meet *)

Hashes == 1..MaxHashes

DiffstatKeys == {"a", "d", "f", "s", "t", "c", "n"}

\* a well-formed diffstat entry, one without its "c" key, one with a string for
\* "a", and the string "not a valid entry"
DiffstatEntries ==
    {DictEntry([k \in DiffstatKeys |-> Num(IF k = "a" THEN 10 ELSE 0)]),
     DictEntry([k \in DiffstatKeys \ {"c"} |-> Num(0)]),
     DictEntry([k \in DiffstatKeys |-> IF k = "a" THEN Str ELSE Num(0)]),
     StrEntry}

ScoreKeys == {"v", "total", "cats"}

\* a well-formed current score entry, a stale one, one with a string total, and
\* one without its "cats" key
ScoreEntries ==
    {DictEntry([k \in ScoreKeys |->
        CASE k = "v" -> Num(SCORE_CACHE_VERSION) [] k = "total" -> Num(6 * Unit)
          [] OTHER -> Obj]),
     DictEntry([k \in ScoreKeys |->
        CASE k = "v" -> Num(SCORE_CACHE_VERSION - 1) [] k = "total" -> Num(Half)
          [] OTHER -> Obj]),
     DictEntry([k \in ScoreKeys |->
        CASE k = "v" -> Num(SCORE_CACHE_VERSION) [] k = "total" -> Str
          [] OTHER -> Obj]),
     DictEntry([k \in ScoreKeys \ {"cats"} |->
        IF k = "v" THEN Num(SCORE_CACHE_VERSION) ELSE Num(Half)])}

\* {"agents": 2}, {} and {"testing": "high"}, and the string "bad"
EnrichEntries ==
    {DictEntry([c \in {"agents"} |-> Num(2)]),
     DictEntry(EmptyMap),
     DictEntry([c \in {"testing"} |-> Str]),
     StrEntry}

\* a history entry, by the fields record_history compares and the time it was made
HistoryEntry(date, commits, time) ==
    [convergence_date |-> date, total_commits |-> commits, scan_time |-> time]

CacheKinds == {"score", "diffstat", "enrich"}
LoadKinds == {"history"} \cup CacheKinds

EntriesOf(kind) ==
    CASE kind = "score"    -> ScoreEntries
      [] kind = "diffstat" -> DiffstatEntries
      [] kind = "enrich"   -> EnrichEntries

CurrentVersion(kind) ==
    CASE kind = "score"    -> SCORE_CACHE_VERSION
      [] kind = "diffstat" -> DIFFSTAT_CACHE_VERSION
      [] kind = "enrich"   -> ENRICH_CACHE_VERSION

\* the "_v" values a file may hold: none, the three current ones, and 999
StoredVersions == {NoVersion, 1, 2, 3, 999}

EntryMaps(kind) == UNION {[S -> EntriesOf(kind)] : S \in SUBSET Hashes}

JsonValues(kind) ==
    IF kind = "history"
    THEN {JOther, JDict(NoVersion, EmptyMap), JList(<<>>),
          JList(<<HistoryEntry("2026-06-15", 150, 0)>>)}
    ELSE {JOther, JList(<<>>)}
         \cup {JDict(v, e) : v \in StoredVersions, e \in EntryMaps(kind)}

Files(kind) ==
    {MissingFile, BadFile("unreadable"), BadFile("bad_utf8"), BadFile("bad_json"),
     BadFile("huge_int"), BadFile("too_deep")}
    \cup {JsonFile(j) : j \in JsonValues(kind)}

-----------------------------------------------------------------------------
(* Loading as a state machine: a file is drawn, then loaded *)

NotLoaded == [raised |-> None, value |-> EmptyCache, done |-> FALSE]

LoadIdle ==
    /\ loadKind = "history"
    /\ loadFile = MissingFile
    /\ loadResult = NotLoaded

LoadInit ==
    /\ loadKind \in LoadKinds
    /\ loadFile \in Files(loadKind)
    /\ loadResult = NotLoaded

LoadHistory ==
    /\ loadKind = "history" /\ ~loadResult.done
    /\ loadResult' = load_history(loadFile)
    /\ UNCHANGED <<loadKind, loadFile>>

LoadScoreCache ==
    /\ loadKind = "score" /\ ~loadResult.done
    /\ loadResult' = load_score_cache(loadFile)
    /\ UNCHANGED <<loadKind, loadFile>>

LoadDiffstatCache ==
    /\ loadKind = "diffstat" /\ ~loadResult.done
    /\ loadResult' = load_diffstat_cache(loadFile)
    /\ UNCHANGED <<loadKind, loadFile>>

LoadEnrichCache ==
    /\ loadKind = "enrich" /\ ~loadResult.done
    /\ loadResult' = load_enrich_cache(loadFile)
    /\ UNCHANGED <<loadKind, loadFile>>

-----------------------------------------------------------------------------
(* Path.write_text(text): open(mode="w") truncates the file, write() and   *)
(* close() put the text there.  An OSError from open leaves the file as it *)
(* was; one from write or close leaves it truncated.                       *)

WriteOutcomes == {"ok", "open_fails", "write_fails"}

Truncated == BadFile("bad_json")

WriteText(file, new, outcome) ==
    CASE outcome = "ok"          -> new
      [] outcome = "open_fails"  -> file
      [] outcome = "write_fails" -> Truncated

-----------------------------------------------------------------------------
(* record_history *)

ConvergenceDates == {None, "2026-06-15", "2026-07-01"}
CommitTotals == {100, 150}

NoCall ==
    [done |-> FALSE, raised |-> None, before |-> <<>>,
     entry |-> HistoryEntry(None, 0, 0), ret |-> <<>>]

HistoryIdle ==
    /\ historyFile = MissingFile
    /\ histCall = NoCall
    /\ histClock = 1

HistoryInit ==
    /\ historyFile \in Files("history")
    /\ histCall = NoCall
    /\ histClock = 1

\* history = load_history(); history.append(entry); write; return history
record_history(file, entry) ==
    LET loaded == load_history(file)
    IN  IF loaded.raised # None
        THEN [done |-> TRUE, raised |-> loaded.raised, before |-> <<>>,
              entry |-> entry, ret |-> <<>>]
        ELSE [done |-> TRUE, raised |-> None, before |-> loaded.value,
              entry |-> entry, ret |-> Append(loaded.value, entry)]

RecordHistory ==
    \E date \in ConvergenceDates, commits \in CommitTotals, outcome \in WriteOutcomes :
        LET call == record_history(historyFile, HistoryEntry(date, commits, histClock))
        IN  /\ histClock <= MaxScans
            /\ histCall' = call
            /\ histClock' = histClock + 1
            /\ historyFile' =
                  IF call.raised # None THEN historyFile
                  ELSE WriteText(historyFile, JsonFile(JList(call.ret)), outcome)

-----------------------------------------------------------------------------
(* save_score_cache, save_diffstat_cache, save_enrich_cache, step by step: *)
(* the process may be killed between any two steps.                        *)

\* cache["_v"] = <current version> (save_score_cache stamps nothing)
Stamp(kind, cache) ==
    IF kind = "score" THEN cache ELSE Cache(CurrentVersion(kind), cache.entries)

\* json.dumps(cache) as the file that holds it
FileOfCache(cache) == JsonFile(JDict(cache.v, cache.entries))

SaveIdle ==
    /\ disk = MissingFile
    /\ saveKind = "score"
    /\ savePc = "idle"
    /\ saveCache = EmptyCache
    /\ savePrev = MissingFile
    /\ saveCount = 0

SaveInit ==
    /\ saveKind \in CacheKinds
    /\ disk \in {MissingFile}
            \cup {FileOfCache(Stamp(saveKind, Cache(NoVersion, e))) :
                     e \in EntryMaps(saveKind)}
    /\ savePc = "idle"
    /\ saveCache = EmptyCache
    /\ savePrev = disk
    /\ saveCount = 0

\* the call: the version is stamped and the text built
SaveBegin ==
    /\ savePc = "idle"
    /\ saveCount < MaxSaves
    /\ \E e \in EntryMaps(saveKind) :
          saveCache' = Stamp(saveKind, Cache(NoVersion, e))
    /\ savePrev' = disk
    /\ savePc' = "open"
    /\ saveCount' = saveCount + 1
    /\ UNCHANGED <<disk, saveKind>>

\* open(mode="w"): the file is truncated, or OSError is caught and the save ends
SaveOpen ==
    /\ savePc = "open"
    /\ \/ disk' = Truncated /\ savePc' = "write"
       \/ disk' = disk /\ savePc' = "idle"
    /\ UNCHANGED <<saveKind, saveCache, savePrev, saveCount>>

\* write() and close(): the text is on disk, or OSError is caught and the save ends
SaveWrite ==
    /\ savePc = "write"
    /\ \/ disk' = FileOfCache(saveCache)
       \/ disk' = disk
    /\ savePc' = "idle"
    /\ UNCHANGED <<saveKind, saveCache, savePrev, saveCount>>

\* the process is killed during a save
SaveCrash ==
    /\ savePc \in {"open", "write"}
    /\ savePc' = "crashed"
    /\ UNCHANGED <<disk, saveKind, saveCache, savePrev, saveCount>>

-----------------------------------------------------------------------------
(* server.py: Handler.handle_scan and the run_scan thread it starts.       *)
(* http.server.HTTPServer serves one request at a time, so one handler     *)
(* runs at a time, beside the run_scan threads.                            *)

NoScanResult == [success |-> None, returncode |-> None]
ScanResult(success, returncode) == [success |-> success, returncode |-> returncode]

\* what subprocess.run reports of a child that ended: its exit code, or the
\* negated number of the signal that ended it (here 0 and 1, the exit codes
\* of scan.py; 2, the interpreter finding no scan.py; SIGHUP and SIGKILL)
ReturnCodes == {0, 1, 2, 0 - 1, 0 - 9}

\* how subprocess.run ends: it returns with the child's return code, or
\* raises TimeoutExpired or another exception
ScanOutcomes ==
    {[kind |-> "returned", returncode |-> c] : c \in ReturnCodes}
        \cup {[kind |-> "timeout"], [kind |-> "exception"]}

ResultOf(outcome) ==
    IF outcome.kind = "returned"
    THEN ScanResult(IF outcome.returncode = 0 THEN "True" ELSE "False",
                    ToString(outcome.returncode))
    ELSE ScanResult("False", "-1")

ServerIdle ==
    /\ scan_running = FALSE
    /\ scan_lock = "free"
    /\ last_scan_result = NoScanResult
    /\ hpc = "idle"
    /\ hresp = None
    /\ threads = EmptyMap
    /\ nreq = 0
    /\ harrived = FALSE

ServerInit == ServerIdle

\* if scan_running: (inside the lock)
AlreadyRunning_Never == FALSE
AlreadyRunning == scan_running

\* a POST or GET of /api/scan arrives: handle_scan is entered
HandleScan ==
    /\ hpc = "idle"
    /\ nreq < MaxRequests
    /\ nreq' = nreq + 1
    /\ harrived' = scan_running
    /\ hpc' = "lock"
    /\ UNCHANGED <<scan_running, scan_lock, last_scan_result, hresp, threads>>

\* with scan_lock: (acquire)
HandlerAcquire ==
    /\ hpc = "lock"
    /\ scan_lock = "free"
    /\ scan_lock' = "handler"
    /\ hpc' = "check"
    /\ UNCHANGED <<scan_running, last_scan_result, hresp, threads, nreq, harrived>>

\* if scan_running: (the 409 branch is entered with the lock held) else
\* scan_running = True and the lock is released on the way out of the with block
HandlerCheck ==
    /\ hpc = "check"
    /\ IF AlreadyRunning
       THEN /\ hpc' = "reject"
            /\ UNCHANGED <<scan_running, scan_lock>>
       ELSE /\ scan_running' = TRUE
            /\ scan_lock' = "free"
            /\ hpc' = "respond"
    /\ UNCHANGED <<last_scan_result, hresp, threads, nreq, harrived>>

\* self.send_json({"status": "already_running"}, 409), inside the with block:
\* the response is written, or the write raises (the client is gone) and
\* nothing is sent; the lock is still held
HandlerReject ==
    /\ hpc = "reject"
    /\ hresp' \in {"already_running", "send_failed"}
    /\ hpc' = "release"
    /\ UNCHANGED <<scan_running, scan_lock, last_scan_result, threads, nreq, harrived>>

\* return, or the exception, leaves the with block: the lock is released and
\* handle_scan ends
HandlerRelease ==
    /\ hpc = "release"
    /\ scan_lock' = "free"
    /\ hpc' = "idle"
    /\ UNCHANGED <<scan_running, last_scan_result, hresp, threads, nreq, harrived>>

\* self.send_json({"status": "started"}): it is sent, or the write raises (the
\* client is gone) and handle_scan ends there
HandlerRespond ==
    /\ hpc = "respond"
    /\ \/ hresp' = "started" /\ hpc' = "spawn"
       \/ hresp' = "send_failed" /\ hpc' = "idle"
    /\ UNCHANGED <<scan_running, scan_lock, last_scan_result, threads, nreq, harrived>>

\* thread = threading.Thread(target=run_scan, daemon=True); thread.start():
\* the thread runs, or start() raises RuntimeError (the system gives no new
\* thread) and handle_scan ends there, "started" sent and scan_running set
HandlerSpawn ==
    /\ hpc = "spawn"
    /\ \/ threads' = [t \in DOMAIN threads \cup {nreq} |->
                         IF t = nreq THEN "run" ELSE threads[t]]
       \/ threads' = threads
    /\ hpc' = "idle"
    /\ UNCHANGED <<scan_running, scan_lock, last_scan_result, hresp, nreq, harrived>>

SetThread(t, pc) == threads' = [threads EXCEPT ![t] = pc]

\* subprocess.run(...) starts scan.py
ScanStart(t) ==
    /\ threads[t] = "run"
    /\ SetThread(t, "proc")
    /\ UNCHANGED <<scan_running, scan_lock, last_scan_result, hpc, hresp, nreq, harrived>>

\* subprocess.run(...) ends; the try or an except clause stores the outcome
ScanEnd(t) ==
    /\ threads[t] = "proc"
    /\ \E outcome \in ScanOutcomes : last_scan_result' = ResultOf(outcome)
    /\ SetThread(t, "finally")
    /\ UNCHANGED <<scan_running, scan_lock, hpc, hresp, nreq, harrived>>

\* finally: with scan_lock: (acquire)
ScanAcquire(t) ==
    /\ threads[t] = "finally"
    /\ scan_lock = "free"
    /\ scan_lock' = "thread"
    /\ SetThread(t, "reset")
    /\ UNCHANGED <<scan_running, last_scan_result, hpc, hresp, nreq, harrived>>

\* scan_running = False; the lock is released and the thread ends
ScanReset(t) ==
    /\ threads[t] = "reset"
    /\ scan_running' = FALSE
    /\ scan_lock' = "free"
    /\ SetThread(t, "done")
    /\ UNCHANGED <<last_scan_result, hpc, hresp, nreq, harrived>>

-----------------------------------------------------------------------------
(* apply_diffstat_weight(total, cats, diffstat).                           *)
(*                                                                         *)
(* A diffstat is [present, s, t, c, a, d, n]: present is FALSE for None    *)
(* and for {} (both are falsy); a key read with diffstat.get(key, 0) is 0  *)
(* when it is missing.  The multiplier is held in units of 1 / MScale, so  *)
(* that 1.15 * 0.85 is exact, and the returned total in units of           *)
(* 1 / (Unit * MScale).                                                    *)

MScale == 10 * 1000

LARGE_SOURCE_THRESHOLD == 100
MEDIUM_SOURCE_THRESHOLD == 30
\* 0.30 and 0.15
LARGE_SOURCE_BONUS == 3000
MEDIUM_SOURCE_BONUS == 1500
MAJOR_NEW_FILES_THRESHOLD == 3
MINOR_NEW_FILES_THRESHOLD == 1
\* 0.20 and 0.10
MAJOR_NEW_FILES_BONUS == 2000
MINOR_NEW_FILES_BONUS == 1000
\* 0.8
CONFIG_ONLY_MULTIPLIER == 8000
DELETION_HEAVY_THRESHOLD == 50
\* 0.85
DELETION_HEAVY_MULTIPLIER == 8500
\* 0.4 and 2.0
MULTIPLIER_FLOOR == 4000
MULTIPLIER_CEILING == 20000
TEST_LINES_THRESHOLD == 10
TEST_SAFETY_BONUS == 2

NoDiffstat == [present |-> FALSE, s |-> 0, t |-> 0, c |-> 0, a |-> 0, d |-> 0, n |-> 0]

Diffstats ==
    [present : {TRUE}, s : {0, 30, 100}, t : {0, 10}, c : {0, 5},
     a : {0, 60}, d : {0, 51, 100}, n : {0, 1, 3}]

\* the totals passed in: 0, 0.2, 0.5, 1, 3 and 10
WeightTotals == {0, Unit \div 5, Half, Unit, 3 * Unit, 10 * Unit}

\* the category maps passed in
WeightCats ==
    {EmptyMap, [c \in {"agents"} |-> 6], [c \in {"safety"} |-> 4],
     [c \in {"agents", "safety"} |-> IF c = "agents" THEN 3 ELSE 2]}

\* the same adjustments applied to a multiplier that starts at 0.0
RawMultiplier_FromZero(ds) ==
    LET g  == settings.scoring
        m1 == IF ds.s >= g.large_source_threshold THEN g.large_source_bonus
              ELSE IF ds.s >= g.medium_source_threshold THEN g.medium_source_bonus
              ELSE 0
        m2 == IF ds.s = 0 /\ ds.t = 0 /\ ds.c > 0
              THEN (m1 * g.config_only_multiplier) \div MScale ELSE m1
        m3 == m2 +
                (IF ds.n >= g.major_new_files_threshold THEN g.major_new_files_bonus
                 ELSE IF ds.n >= g.minor_new_files_threshold THEN g.minor_new_files_bonus
                 ELSE 0)
    IN  IF ds.d > ds.a /\ ds.d > g.deletion_heavy_threshold
        THEN (m3 * g.deletion_heavy_multiplier) \div MScale ELSE m3

\* multiplier = 1.0, then the four adjustments in the order of the code
RawMultiplier(ds) ==
    LET g  == settings.scoring
        m1 == MScale +
                (IF ds.s >= g.large_source_threshold THEN g.large_source_bonus
                 ELSE IF ds.s >= g.medium_source_threshold THEN g.medium_source_bonus
                 ELSE 0)
        m2 == IF ds.s = 0 /\ ds.t = 0 /\ ds.c > 0
              THEN (m1 * g.config_only_multiplier) \div MScale ELSE m1
        m3 == m2 +
                (IF ds.n >= g.major_new_files_threshold THEN g.major_new_files_bonus
                 ELSE IF ds.n >= g.minor_new_files_threshold THEN g.minor_new_files_bonus
                 ELSE 0)
    IN  IF ds.d > ds.a /\ ds.d > g.deletion_heavy_threshold
        THEN (m3 * g.deletion_heavy_multiplier) \div MScale ELSE m3

\* max(MULTIPLIER_FLOOR, min(MULTIPLIER_CEILING, multiplier))
ClampMultiplier(m) == Max(settings.scoring.multiplier_floor, Min(settings.scoring.multiplier_ceiling, m))

\* total = max(0.5, total), after total = total * multiplier
FloorScore(total, ds) ==
    IF ~ds.present THEN total * MScale
    ELSE Max(Half * MScale, total * ClampMultiplier(RawMultiplier(ds)))

\* Dict objects: heap is the sequence of the dicts alive, a reference is the
\* place of its object in it.  dict(cats) makes a new object with the items
\* of the one that ref names and gives the reference to it.
DictCopy_Aliased(heap, ref) == [heap |-> heap, ref |-> ref]
DictCopy(heap, ref) == [heap |-> Append(heap, heap[ref]), ref |-> Len(heap) + 1]

\* d[key] = value on the object that ref names
SetItem(heap, ref, key, value) == [heap EXCEPT ![ref] = Put(@, key, value)]

\* d.get(key, 0)
GetOr0(d, key) == IF key \in DOMAIN d THEN d[key] ELSE 0

\* The call with the caller's dict as object 1 of the heap.  Without a
\* diffstat the function returns the reference it was given; with one, the
\* name cats is rebound to the copy (line 575) and line 619 writes to the
\* object that cats then names.  The result gives the returned total, the
\* items of the returned dict (cats), the items of the caller's dict after
\* the call (caller), and whether the two are one object (same).
apply_diffstat_weight(total, cats, ds) ==
    LET caller == 1
        heap0  == <<cats>>
    IN  IF ~ds.present
        THEN [total |-> FloorScore(total, ds), cats |-> heap0[caller],
              caller |-> heap0[caller], same |-> TRUE]
        ELSE LET copied == DictCopy(heap0, caller)
                 local  == copied.ref
                 heap1  == IF ds.t >= settings.scoring.test_lines_threshold
                           THEN SetItem(copied.heap, local, "safety",
                                        GetOr0(copied.heap[local], "safety")
                                            + settings.scoring.test_safety_bonus)
                           ELSE copied.heap
             IN  [total |-> FloorScore(total, ds), cats |-> heap1[local],
                  caller |-> heap1[caller], same |-> local = caller]

\* wResult also keeps the map as the caller passed it (before)
NotWeighted ==
    [done |-> FALSE, total |-> 0, cats |-> EmptyMap, caller |-> EmptyMap,
     same |-> FALSE, before |-> EmptyMap]

WeightIdle ==
    /\ wTotal = 0
    /\ wCats = EmptyMap
    /\ wDiffstat = NoDiffstat
    /\ wResult = NotWeighted

WeightInit ==
    /\ wTotal \in WeightTotals
    /\ wCats \in WeightCats
    /\ wDiffstat \in Diffstats \cup {NoDiffstat}
    /\ wResult = NotWeighted

ApplyDiffstatWeight ==
    /\ ~wResult.done
    /\ wResult' = [done |-> TRUE, before |-> wCats] @@ apply_diffstat_weight(wTotal, wCats, wDiffstat)
    /\ wCats' = apply_diffstat_weight(wTotal, wCats, wDiffstat).caller
    /\ UNCHANGED <<wTotal, wDiffstat>>

-----------------------------------------------------------------------------
(* The monthly series of a run (main, "Aggregate by month").               *)
(*                                                                         *)
(* A scored commit is [month, total, cats]: month is the index of its      *)
(* (year, month) in all_months (0 for an earlier month, one past the last  *)
(* for a later one), total is in units of 1 / Unit.  A rounded capability  *)
(* is a whole number, a sophistication is in thousandths.                  *)

HIGH_LEVEL_CATS == {"agents", "self_modify", "meta", "aql"}
LOW_LEVEL_CATS == {"foundation", "elements", "integration"}

\* all_months: the months from the inception date to today
AllMonths == 1 .. 3

\* (total, cats) pairs of the scoring loop: no match; one agents pattern; two
\* low-level categories, weighted to 2.5; an agents and a foundation
\* pattern; and a current score-cache entry with a total of -10 (the loop
\* takes cache[hash_id]["total"] as the file gives it)
ScoredKinds ==
    {[total |-> Half, cats |-> EmptyMap],
     [total |-> 0 - 10 * Unit, cats |-> [c \in {"agents"} |-> 3]],
     [total |-> 3 * Unit, cats |-> [c \in {"agents"} |-> 3]],
     [total |-> 5 * Half, cats |-> [c \in {"foundation", "safety"} |->
                                        IF c = "safety" THEN 2 ELSE 1]],
     [total |-> 4 * Unit, cats |-> [c \in {"agents", "foundation"} |->
                                        IF c = "agents" THEN 3 ELSE 1]]}

\* the months of commit dates: extract_commits keeps every commit of
\* "git log --all", also one dated before the epoch month (0) or after the
\* current month (the month after the last of all_months)
CommitMonths == 0 .. Cardinality(AllMonths) + 1

ScoredCommits ==
    {[month |-> m, total |-> k.total, cats |-> k.cats] :
        m \in CommitMonths, k \in ScoredKinds}

ScoredLists == UNION {[1 .. n -> ScoredCommits] : n \in 0 .. MaxScored}

\* round(x) of a float x that is exact in binary: to the nearest whole
\* number, a tie to the even one
PyRound(x) ==
    LET q == x \div Unit
        r == x % Unit
    IN  IF r < Half THEN q
        ELSE IF r > Half THEN q + 1
        ELSE IF q % 2 = 0 THEN q ELSE q + 1

RECURSIVE Gcd(_, _)
Gcd(a, b) == IF b = 0 THEN a ELSE Gcd(b, a % b)

\* 2^e modulo m
RECURSIVE Pow2Mod(_, _)
Pow2Mod(e, m) == IF e = 0 THEN 1 % m ELSE (2 * Pow2Mod(e - 1, m)) % m

\* the least s with p * 2^s >= q: the quotient p / q lies in [2^-s, 2^(1-s))
RECURSIVE NormShift(_, _)
NormShift(p, q) == IF p >= q THEN 0 ELSE 1 + NormShift(2 * p, q)

\* high / total_cat as a double: the remainder of p * 2^(52+s) by q, for p / q
\* the quotient in lowest terms.  The double is the quotient rounded to 53
\* significant bits: the quotient itself when the remainder is 0, a value
\* below it when twice the remainder is less than q, a value above it otherwise.
DivResidue(high, total_cat) ==
    LET g == Gcd(high, total_cat)
        p == high \div g
        q == total_cat \div g
    IN  ((p % q) * Pow2Mod(52 + NormShift(p, q), q)) % q

\* round(high / total_cat, 3), in thousandths: round() takes the decimal
\* nearest to the double, a tie to the even thousandth.  The double differs
\* from the quotient by less than any distance between a quotient of two such
\* sums and a tie, so only a quotient that is a tie itself (k.5 thousandths,
\* its lowest-terms denominator then divides 2000) is decided by the double.
PyRound3(high, total_cat) ==
    LET q == (1000 * high) \div total_cat
        r == (1000 * high) % total_cat
    IN  IF 2 * r < total_cat THEN q
        ELSE IF 2 * r > total_cat THEN q + 1
        ELSE LET rem == DivResidue(high, total_cat)
                 den == total_cat \div Gcd(high, total_cat)
             IN  IF rem = 0 THEN (IF q % 2 = 0 THEN q ELSE q + 1)
                 ELSE IF 2 * rem < den THEN q
                 ELSE q + 1

\* the commits of the list that fall in month ym
InMonth(list, ym) == {i \in DOMAIN list : list[i].month = ym}

\* monthly_cat_scores.get(ym, {}): per category, the sum over the month
MonthCats(list, ym) ==
    LET names == UNION {DOMAIN list[i].cats : i \in InMonth(list, ym)}
    IN  [c \in names |->
            SumOver([i \in InMonth(list, ym) |->
                        IF c \in DOMAIN list[i].cats THEN list[i].cats[c] ELSE 0],
                    InMonth(list, ym))]

\* high / total_cat if total_cat > 0 else 0, rounded to 3 places
Sophistication(cats) ==
    LET high      == SumOver(cats, DOMAIN cats \cap settings.high_level_categories)
        total_cat == IF DOMAIN cats # {} THEN SumOver(cats, DOMAIN cats) ELSE 1
    IN  IF total_cat > 0 THEN PyRound3(high, total_cat) ELSE 0

\* cum_commits += c, cum_capability += cap
Accumulate(cum, x) == cum + x

MonthIdle ==
    /\ scored = <<>>
    /\ monthIdx = 1
    /\ cum_commits = 0
    /\ cum_capability = 0
    /\ monthly_data = <<>>

\* commits.sort(key=lambda x: x[0]): scored follows the order of dates
DateSorted(list) == \A i \in 1 .. Len(list) - 1 : list[i].month <= list[i + 1].month

MonthInit ==
    /\ scored \in ScoredLists
    /\ DateSorted(scored)
    /\ monthIdx = 1
    /\ cum_commits = 0
    /\ cum_capability = 0
    /\ monthly_data = <<>>

\* one turn of "for ym in all_months"
AggregateMonth ==
    /\ monthIdx \in AllMonths
    /\ LET c    == Cardinality(InMonth(scored, monthIdx))
           cap  == SumOver([i \in InMonth(scored, monthIdx) |-> scored[i].total],
                           InMonth(scored, monthIdx))
           cumc == Accumulate(cum_commits, c)
           cumk == Accumulate(cum_capability, cap)
       IN  /\ cum_commits' = cumc
           /\ cum_capability' = cumk
           /\ monthly_data' = Append(monthly_data,
                 [month                 |-> monthIdx,
                  commits               |-> c,
                  capability            |-> PyRound(cap),
                  sophistication        |-> Sophistication(MonthCats(scored, monthIdx)),
                  cats                  |-> MonthCats(scored, monthIdx),
                  cumulative_commits    |-> cumc,
                  cumulative_capability |-> PyRound(cumk)])
    /\ monthIdx' = monthIdx + 1
    /\ UNCHANGED scored

-----------------------------------------------------------------------------
(* A run of main from the enrichment step to the end of the scoring loop:  *)
(* enrich_commits (when --enrich is given), then "for ... in commits".     *)
(*                                                                         *)
(* A commit is [hash, msg, ds]: ds is diffstat_cache.get(hash_id).  The    *)
(* in-memory score cache maps a hash to [v, total, cats], v = NoVersion    *)
(* standing for an entry without its "v" key; the enrichment cache maps a  *)
(* hash to a category map.  Commit hashes are hexadecimal, so              *)
(* hash_id.startswith("_") is false for every commit.  Weighted totals are *)
(* in units of 1 / (Unit * MScale).  attempt_log keeps, for each batch,    *)
(* the calls of call_anthropic_api with their outcome and the sleep that   *)
(* followed; sent and enrich_at_call keep what the call of enrich_commits  *)
(* sent and was given.  Every run is a process of its own: it starts from  *)
(* the built-in globals, applies config.json as it then is, extracts the   *)
(* commits the repositories then hold and loads the cache files as the     *)
(* runs before left them.  enrich_cache.json is written after every batch  *)
(* and after enrich_commits returns, score_cache.json after the scoring    *)
(* loop.  A cache file is held as what a load of it gives.                 *)

ENRICH_BATCH_SIZE == 50
ENRICH_MAX_RETRIES == 3

\* the globals as the module defines them: the fifteen scoring constants,
\* CATEGORIES (name -> weight and pattern list) and the two level sets
BuiltinSettings ==
    [scoring |->
        [large_source_threshold    |-> LARGE_SOURCE_THRESHOLD,
         medium_source_threshold   |-> MEDIUM_SOURCE_THRESHOLD,
         large_source_bonus        |-> LARGE_SOURCE_BONUS,
         medium_source_bonus       |-> MEDIUM_SOURCE_BONUS,
         major_new_files_threshold |-> MAJOR_NEW_FILES_THRESHOLD,
         minor_new_files_threshold |-> MINOR_NEW_FILES_THRESHOLD,
         major_new_files_bonus     |-> MAJOR_NEW_FILES_BONUS,
         minor_new_files_bonus     |-> MINOR_NEW_FILES_BONUS,
         config_only_multiplier    |-> CONFIG_ONLY_MULTIPLIER,
         deletion_heavy_threshold  |-> DELETION_HEAVY_THRESHOLD,
         deletion_heavy_multiplier |-> DELETION_HEAVY_MULTIPLIER,
         multiplier_floor          |-> MULTIPLIER_FLOOR,
         multiplier_ceiling        |-> MULTIPLIER_CEILING,
         test_lines_threshold      |-> TEST_LINES_THRESHOLD,
         test_safety_bonus         |-> TEST_SAFETY_BONUS],
     categories |-> [c \in Categories |-> [weight |-> Weight[c], patterns |-> c]],
     high_level_categories |-> HIGH_LEVEL_CATS,
     low_level_categories  |-> LOW_LEVEL_CATS]

\* What load_config returns, a JSON object held as a record of the keys it
\* has; None (no config.json, no JSON, no object) is the empty one, which
\* main and apply_config treat alike.  The configurations drawn:
\*   none;
\*   the built-in rubric with weight 7 for agents;
\*   {"scoring": {"test_safety_bonus": 5}};
\*   a rubric of other names ("tooling" with the pattern list of agents and
\*   no weight, "docs" with weight 2 and no patterns), its level sets, and
\*   scoring constants: large_source_bonus 0.5, multiplier_ceiling 1.2,
\*   test_lines_threshold 11.
\* The "goal" and "repos" sections set INCEPTION_DATE and the directories
\* find_repos walks: they decide all_months and the commits extracted, which
\* are drawn on their own (AllMonths, RunCommitLists).
Configs ==
    {EmptyMap,
     [rubric |->
        [categories |->
            [c \in Categories |->
                [weight |-> IF c = "agents" THEN 7 ELSE Weight[c], patterns |-> c]]]],
     [scoring |-> [test_safety_bonus |-> 5]],
     [scoring |-> [large_source_bonus |-> MScale \div 2,
                   multiplier_ceiling |-> (12 * MScale) \div 10,
                   test_lines_threshold |-> TEST_LINES_THRESHOLD + 1],
      rubric |->
        [categories |-> [tooling |-> [patterns |-> "agents"], docs |-> [weight |-> 2]],
         high_level_categories |-> {"tooling"},
         low_level_categories |-> {"docs"}]]}

\* d.get(key, {}) of a JSON object
GetObj(d, key) == IF key \in DOMAIN d THEN d[key] ELSE EmptyMap

\* X = scoring.get("x", X) for every constant X of the group g
Override(g, scoring) ==
    [k \in DOMAIN g |-> IF k \in DOMAIN scoring THEN scoring[k] ELSE g[k]]

\* {"weight": cat_def.get("weight", 1), "patterns": cat_def.get("patterns", [])}
CatDef(cat_def) ==
    [weight   |-> IF "weight" \in DOMAIN cat_def THEN cat_def.weight ELSE 1,
     patterns |-> IF "patterns" \in DOMAIN cat_def THEN cat_def.patterns ELSE NoPatterns]

\* apply_config(config) on the globals g: "if not config: return"; the
\* scoring constants are read when the section is not empty; CATEGORIES is
\* cleared and filled from rubric.categories, the level sets are replaced
apply_config(g, config) ==
    IF DOMAIN config = {} THEN g
    ELSE LET scoring == GetObj(config, "scoring")
             rubric  == GetObj(config, "rubric")
         IN  [scoring |-> IF DOMAIN scoring # {} THEN Override(g.scoring, scoring)
                          ELSE g.scoring,
              categories |->
                  IF "categories" \in DOMAIN rubric
                  THEN [c \in DOMAIN rubric.categories |-> CatDef(rubric.categories[c])]
                  ELSE g.categories,
              high_level_categories |->
                  IF "high_level_categories" \in DOMAIN rubric
                  THEN rubric.high_level_categories ELSE g.high_level_categories,
              low_level_categories |->
                  IF "low_level_categories" \in DOMAIN rubric
                  THEN rubric.low_level_categories ELSE g.low_level_categories]

\* config = load_config(); if config: apply_config(config), in a new process
Settings == {apply_config(BuiltinSettings, c) : c \in Configs}

\* extract_commits keeps one commit per hash
RunHashes == <<"a1f0", "b2e9">>

\* a message with two agents patterns, and a merge/feature message without
\* a category pattern
AgentsMessage == [NoMsg EXCEPT !.hits = [c \in Categories |-> IF c = "agents" THEN 2 ELSE 0]]
MergeFeatMessage == [NoMsg EXCEPT !.merge = TRUE, !.feat = TRUE]
RunMessages == {AgentsMessage, MergeFeatMessage}

\* a diffstat with test lines and a large source diff
LargeDiffstat ==
    [present |-> TRUE, s |-> 100, t |-> 10, c |-> 0, a |-> 110, d |-> 0, n |-> 0]

\* no diffstat, and the large one
RunDiffstats == {NoDiffstat, LargeDiffstat}

\* the orders of n of the hashes: commits.sort(key=lambda x: x[0]) orders by
\* the day of the author date, which a hash does not tell
HashOrders(n) ==
    {h \in [1 .. n -> {RunHashes[i] : i \in DOMAIN RunHashes}] :
        \A i, j \in 1 .. n : i # j => h[i] # h[j]}

\* the short lists extract_commits may return: any message and diffstat for
\* a hash (git replace gives a hash another message; a diffstat may be there
\* or not)
ShortCommitLists ==
    UNION {{[i \in 1 .. n |-> [hash |-> h[i], msg |-> m[i], ds |-> d[i]]] :
                h \in HashOrders(n), m \in [1 .. n -> RunMessages],
                d \in [1 .. n -> RunDiffstats]} :
           n \in 1 .. Len(RunHashes)}

\* a list longer than a batch: ENRICH_BATCH_SIZE commits without diffstat,
\* hashes c1, c2, ..., then the first hash of RunHashes
LongCommitList ==
    [i \in 1 .. ENRICH_BATCH_SIZE + 1 |->
        IF i <= ENRICH_BATCH_SIZE
        THEN [hash |-> "c" \o ToString(i),
              msg  |-> IF i % 2 = 1 THEN AgentsMessage ELSE MergeFeatMessage,
              ds   |-> NoDiffstat]
        ELSE [hash |-> RunHashes[1], msg |-> AgentsMessage, ds |-> LargeDiffstat]]

\* the lists extract_commits may return (main exits on an empty one)
RunCommitLists == ShortCommitLists \cup {LongCommitList}

\* the lists of a first run: the hashes of a short list are named in the
\* order in which it lists them
FirstCommitLists ==
    {l \in ShortCommitLists : \A i \in DOMAIN l : l[i].hash = RunHashes[i]}
        \cup {LongCommitList}

\* score-cache entries met by a run: a current one, a stale one, and one
\* that lacks its "v" key
RunScoreEntries ==
    {[v |-> SCORE_CACHE_VERSION, total |-> 7 * Unit * MScale,
      cats |-> [c \in {"meta"} |-> 5]],
     [v |-> SCORE_CACHE_VERSION - 1, total |-> 99 * Unit * MScale,
      cats |-> [c \in {"meta"} |-> 5]],
     [v |-> NoVersion, total |-> 99 * Unit * MScale,
      cats |-> [c \in {"meta"} |-> 5]]}

\* enrichment-cache entries of earlier runs
RunEnrichEntries == {[c \in {"aql"} |-> 2]}

\* the maps from some of the run's hashes to entries
RunCaches(entries) ==
    UNION {[S -> entries] : S \in SUBSET {RunHashes[i] : i \in DOMAIN RunHashes}}

\* the caches drawn with a list: any with a short one, with the long one an
\* empty score cache and an enrichment cache that holds at most the last
\* commit of the list
CachesFit(list, sc, ec) ==
    Len(list) > Len(RunHashes) =>
        /\ sc = EmptyMap
        /\ DOMAIN ec \subseteq {list[Len(list)].hash}

\* what the classifier gives for one commit: a map of hit counts with an
\* unknown name, an empty map, an object without "c", and a hit count of
\* Infinity (json.loads reads it as float('inf'))
Classified(raw) == [kind |-> "cats", raw |-> raw]
Malformed == [kind |-> "malformed", raw |-> EmptyMap]
InfiniteHits == [kind |-> "infinity", raw |-> EmptyMap]

AgentsResult ==
    Classified([n \in {"agents", "nonexistent"} |-> IF n = "agents" THEN 7 ELSE 1])

CommitResults == {AgentsResult, Classified(EmptyMap), Malformed, InfiniteHits}

\* the responses of the right length for a batch of n commits: every list
\* of results for a short batch; for a longer one the same result for every
\* commit, or Infinity for the first or the last commit among classified ones
BatchResults(n) ==
    IF n <= Len(RunHashes) THEN [1 .. n -> CommitResults]
    ELSE {[i \in 1 .. n |-> r] : r \in CommitResults \ {InfiniteHits}}
            \cup {[i \in 1 .. n |-> IF i = p THEN InfiniteHits ELSE AgentsResult] :
                    p \in {1, n}}

\* What a later load gives after save_enrich_cache(cache) or
\* save_score_cache(cache) on a file that gave file before: write_text
\* writes the cache; or open() raises OSError and the file stays; or the
\* write raises OSError after open() truncated the file, and what is left is
\* no JSON, which loads as an empty cache.  The save swallows the OSError.
SaveOutcome(file, cache, outcome) ==
    CASE outcome = "ok"          -> cache
      [] outcome = "open_fails"  -> file
      [] outcome = "write_fails" -> EmptyMap

SaveOutcomes(file, cache) == {SaveOutcome(file, cache, o) : o \in WriteOutcomes}

\* every commit taken as uncached
Uncached_Always(ec, h) == TRUE

\* hash_id not in enrich_cache or hash_id.startswith("_")
Uncached(ec, h) == h \notin DOMAIN ec

\* clean_cats: {cat_name: max(1, min(3, int(hits)))} for the known names
CleanCats(raw) == [c \in KnownNames(raw) |-> ClampHits(raw[c])]

\* total, cats = score_commit(message); enrich_cache[hash_id] = cats
FallbackEntry(m) == score_commit(m).cats

\* the place of hash h in a list (extract_commits keeps one commit per hash)
PlaceOf(list, h) == CHOOSE i \in DOMAIN list : list[i].hash = h

\* no fallback at all
FallbackAll_None(ec, list) == ec

\* the fallback loops: every commit of the list still uncached gets its
\* pattern categories
FallbackAll(ec, list) ==
    LET fall == {list[i].hash : i \in {k \in DOMAIN list : Uncached(ec, list[k].hash)}}
    IN  [h \in DOMAIN ec \cup fall |->
            IF h \in fall THEN FallbackEntry(list[PlaceOf(list, h)].msg) ELSE ec[h]]

\* "for j, ... in enumerate(batch)": the cache after the loop, whether it
\* was left by an exception that no except clause catches (int(hits) of
\* Infinity raises OverflowError, at the first such result), and the commits
\* that fell back (a result without "c")
ProcessResults(ec, batch, results) ==
    LET inf     == {j \in DOMAIN batch : results[j].kind = "infinity"}
        stop    == IF inf = {} THEN Len(batch) + 1
                   ELSE CHOOSE j \in inf : \A k \in inf : j <= k
        written == {batch[j].hash : j \in 1 .. stop - 1}
        entry(j) == IF results[j].kind = "malformed" THEN FallbackEntry(batch[j].msg)
                    ELSE CleanCats(results[j].raw)
    IN  [cache  |-> [h \in DOMAIN ec \cup written |->
                        IF h \in written THEN entry(PlaceOf(batch, h)) ELSE ec[h]],
         raised |-> IF inf = {} THEN None ELSE "OverflowError",
         fell   |-> {batch[j].hash :
                        j \in {k \in 1 .. stop - 1 : results[k].kind = "malformed"}}]

\* the commits of the list that are not cached, in order
UncachedOf(ec, list) ==
    LET IsUncached(k) == Uncached(ec, k.hash)
    IN  SelectSeq(list, IsUncached)

\* uncached[batch_start:batch_start + ENRICH_BATCH_SIZE]
BatchOf(list, start) == SubSeq(list, start + 1, Min(start + ENRICH_BATCH_SIZE, Len(list)))

RunIdle ==
    /\ runArgs = [enrich |-> FALSE, key |-> FALSE]
    /\ runCommits = <<>>
    /\ enrich_cache = EmptyMap
    /\ scoreCache = EmptyMap
    /\ runPc = "done"
    /\ uncached = <<>>
    /\ batch_start = 0
    /\ attempt = 0
    /\ fellBack = {}
    /\ scoredRun = <<>>
    /\ runNo = 1
    /\ attempt_log = <<>>
    /\ sent = {}
    /\ enrich_at_call = EmptyMap
    /\ settings = BuiltinSettings
    /\ score_file = EmptyMap
    /\ enrich_file = EmptyMap

RunInit ==
    /\ runArgs \in [enrich : BOOLEAN, key : BOOLEAN]
    /\ runArgs.key => runArgs.enrich
    /\ runCommits \in FirstCommitLists
    /\ enrich_cache \in (IF runArgs.enrich THEN RunCaches(RunEnrichEntries)
                         ELSE {EmptyMap})
    /\ scoreCache \in RunCaches(RunScoreEntries)
    /\ CachesFit(runCommits, scoreCache, enrich_cache)
    /\ runPc = IF runArgs.enrich THEN "enrich" ELSE "score"
    /\ uncached = <<>>
    /\ batch_start = 0
    /\ attempt = 0
    /\ fellBack = {}
    /\ scoredRun = <<>>
    /\ runNo = 1
    /\ attempt_log = <<>>
    /\ sent = {}
    /\ enrich_at_call = EmptyMap
    /\ settings \in Settings
    /\ score_file = scoreCache
    /\ enrich_file = enrich_cache

\* enrich_commits without ANTHROPIC_API_KEY: the fallback loop and the
\* return; main then calls save_enrich_cache
EnrichNoKey ==
    /\ runPc = "enrich"
    /\ ~runArgs.key
    /\ enrich_cache' = FallbackAll(enrich_cache, runCommits)
    /\ fellBack' = fellBack \cup
           {runCommits[i].hash : i \in {k \in DOMAIN runCommits :
                                           Uncached(enrich_cache, runCommits[k].hash)}}
    /\ runPc' = "score"
    /\ enrich_at_call' = enrich_cache
    /\ enrich_file' \in SaveOutcomes(enrich_file, enrich_cache')
    /\ UNCHANGED <<runArgs, runCommits, scoreCache, uncached, batch_start, attempt, scoredRun,
                   runNo, attempt_log, sent, settings, score_file>>

\* enrich_commits with a key: the uncached commits; when there is none it
\* returns and main calls save_enrich_cache
EnrichBegin ==
    /\ runPc = "enrich"
    /\ runArgs.key
    /\ uncached' = UncachedOf(enrich_cache, runCommits)
    /\ runPc' = IF uncached' = <<>> THEN "score" ELSE "attempt"
    /\ enrich_at_call' = enrich_cache
    /\ attempt_log' = IF uncached' = <<>> THEN <<>> ELSE <<<<>>>>
    /\ enrich_file' \in IF uncached' = <<>> THEN SaveOutcomes(enrich_file, enrich_cache)
                        ELSE {enrich_file}
    /\ UNCHANGED <<runArgs, runCommits, enrich_cache, scoreCache, batch_start, attempt,
                   fellBack, scoredRun, runNo, sent, settings, score_file>>

\* the log after one more call_anthropic_api for the current batch, with its
\* outcome and the seconds of time.sleep that followed it (0 for none)
Logged(outcome, slept) ==
    [attempt_log EXCEPT ![Len(attempt_log)] =
        Append(@, [outcome |-> outcome, slept |-> slept])]

\* the hashes of the messages in user_message
Sent(batch) == sent \cup {batch[i].hash : i \in DOMAIN batch}

\* whether "for attempt in range(ENRICH_MAX_RETRIES)" has an attempt left
\* after attempt a
RetriesLeft_OneMore(a) == a < ENRICH_MAX_RETRIES
RetriesLeft(a) == a < ENRICH_MAX_RETRIES - 1

\* after a batch whose calls are logged in log: save_enrich_cache, then the
\* next batch ("for attempt in range(...)" starts again) or, after the last
\* batch, the return of enrich_commits and the save_enrich_cache of main
NextBatch(log) ==
    LET more == batch_start + ENRICH_BATCH_SIZE < Len(uncached)
    IN  /\ \E saved \in SaveOutcomes(enrich_file, enrich_cache') :
               enrich_file' \in IF more THEN {saved}
                                ELSE SaveOutcomes(saved, enrich_cache')
        /\ batch_start' = batch_start + ENRICH_BATCH_SIZE
        /\ attempt' = 0
        /\ runPc' = IF more THEN "attempt" ELSE "score"
        /\ attempt_log' = IF more THEN Append(log, <<>>) ELSE log

\* an attempt ends in an exception of the outer except clause (URLError,
\* HTTPError, JSONDecodeError, ValueError for a response of the wrong
\* length, OSError) and another attempt is left
AttemptRetry ==
    /\ runPc = "attempt"
    /\ RetriesLeft(attempt)
    /\ attempt' = attempt + 1
    /\ attempt_log' = Logged("failed", 2 ^ attempt)
    /\ sent' = Sent(BatchOf(uncached, batch_start))
    /\ UNCHANGED <<runArgs, runCommits, enrich_cache, scoreCache, runPc, uncached,
                   batch_start, fellBack, scoredRun, runNo, enrich_at_call, fileVars>>

\* the same on the last attempt: pattern scoring for the whole batch
AttemptExhausted ==
    /\ runPc = "attempt"
    /\ ~RetriesLeft(attempt)
    /\ LET batch == BatchOf(uncached, batch_start)
       IN  /\ enrich_cache' = FallbackAll(enrich_cache, batch)
           /\ fellBack' = fellBack \cup
                  {batch[i].hash : i \in {k \in DOMAIN batch :
                                              Uncached(enrich_cache, batch[k].hash)}}
           /\ sent' = Sent(batch)
    /\ NextBatch(Logged("failed", 0))
    /\ UNCHANGED <<runArgs, runCommits, scoreCache, uncached, scoredRun, runNo,
                   enrich_at_call, settings, score_file>>

\* an attempt ends in an exception that no except clause of enrich_commits
\* names (KeyError or http.client.IncompleteRead from call_anthropic_api)
AttemptUncaught ==
    /\ runPc = "attempt"
    /\ runPc' = "raised"
    /\ attempt_log' = Logged("raised", 0)
    /\ sent' = Sent(BatchOf(uncached, batch_start))
    /\ UNCHANGED <<runArgs, runCommits, enrich_cache, scoreCache, uncached, batch_start,
                   attempt, fellBack, scoredRun, runNo, enrich_at_call, fileVars>>

\* the response is a list of the batch's length
AttemptOk ==
    /\ runPc = "attempt"
    /\ LET batch == BatchOf(uncached, batch_start)
       IN  \E results \in BatchResults(Len(batch)) :
              LET out == ProcessResults(enrich_cache, batch, results)
              IN  /\ enrich_cache' = out.cache
                  /\ fellBack' = fellBack \cup out.fell
                  /\ sent' = Sent(batch)
                  /\ IF out.raised # None
                     THEN /\ runPc' = "raised"
                          /\ attempt_log' = Logged("raised", 0)
                          /\ UNCHANGED <<batch_start, attempt, enrich_file>>
                     ELSE NextBatch(Logged("ok", 0))
    /\ UNCHANGED <<runArgs, runCommits, scoreCache, uncached, scoredRun, runNo,
                   enrich_at_call, settings, score_file>>

\* call_anthropic_api ends, with a response or an exception.  urlopen's
\* timeout bounds each operation on the socket, not the call.
ClassifierCallEnds == AttemptRetry \/ AttemptExhausted \/ AttemptUncaught \/ AttemptOk

\* the loop's first test: enrich_cache is not None and hash_id in enrich_cache
ScoredFromEnrichment(h) == runArgs.enrich /\ h \in DOMAIN enrich_cache

\* the loop's second test: hash_id in cache and cache[hash_id]["v"] == SCORE_CACHE_VERSION
CacheHit(h) == h \in DOMAIN scoreCache /\ scoreCache[h].v = SCORE_CACHE_VERSION

\* cache[hash_id]["v"] of an entry without the key
RaisesKeyError(h) == h \in DOMAIN scoreCache /\ scoreCache[h].v = NoVersion

\* one turn of "for date, message, repo, hash_id in commits"; a scored
\* commit also records the branch taken (via), the score before diffstat
\* weighting (base_total, base_cats) and the entry the cache held (held)
ScoreNext ==
    /\ runPc = "score"
    /\ Len(scoredRun) < Len(runCommits)
    /\ LET k    == runCommits[Len(scoredRun) + 1]
           h    == k.hash
           held == IF h \in DOMAIN scoreCache THEN scoreCache[h]
                   ELSE [v |-> NoVersion, total |-> 0, cats |-> EmptyMap]
           item(via, base, w) ==
               [hash |-> h, via |-> via, total |-> w.total, cats |-> w.cats,
                base_total |-> base.total, base_cats |-> base.cats,
                had |-> h \in DOMAIN scoreCache, held |-> held]
       IN  IF ScoredFromEnrichment(h)
           THEN LET base == enrich_score(enrich_cache[h])
                    w    == apply_diffstat_weight(base.total, base.cats, k.ds)
                IN  /\ scoredRun' = Append(scoredRun, item("enriched", base, w))
                    /\ UNCHANGED <<scoreCache, runPc>>
           ELSE IF RaisesKeyError(h)
           THEN /\ runPc' = "raised"
                /\ UNCHANGED <<scoreCache, scoredRun>>
           ELSE IF CacheHit(h)
           THEN /\ scoredRun' = Append(scoredRun,
                                       item("cached", scoreCache[h], scoreCache[h]))
                /\ UNCHANGED <<scoreCache, runPc>>
           ELSE LET base == score_commit(k.msg)
                    w    == apply_diffstat_weight(base.total, base.cats, k.ds)
                IN  /\ scoredRun' = Append(scoredRun, item("fresh", base, w))
                    /\ scoreCache' = Put(scoreCache, h,
                                    [v |-> SCORE_CACHE_VERSION, total |-> w.total,
                                     cats |-> w.cats])
                    /\ UNCHANGED runPc
    /\ UNCHANGED <<runArgs, runCommits, enrich_cache, uncached, batch_start, attempt,
                   fellBack, traceVars, fileVars>>

\* save_score_cache(cache) after the loop
ScoreEnd ==
    /\ runPc = "score"
    /\ Len(scoredRun) = Len(runCommits)
    /\ runPc' = "done"
    /\ score_file' \in SaveOutcomes(score_file, scoreCache)
    /\ UNCHANGED <<runArgs, runCommits, enrich_cache, scoreCache, uncached, batch_start,
                   attempt, fellBack, scoredRun, traceVars, settings, enrich_file>>

\* the lists a later run may extract from a repository of at most
\* Len(RunHashes) commits: any of them in any order (one made since may
\* carry an earlier date, one of before may be gone), with any message and
\* diffstat, or none
LaterCommits == ShortCommitLists \cup {<<>>}

\* the process of main is over (it returned, an exception left it, or
\* sys.exit(1)): its globals and locals are gone, the files stay
ProcessEnd ==
    /\ runPc \in {"done", "raised", "exited"}
    /\ runPc' = "ended"
    /\ settings' = BuiltinSettings
    /\ runArgs' = [enrich |-> FALSE, key |-> FALSE]
    /\ runCommits' = <<>>
    /\ enrich_cache' = EmptyMap
    /\ scoreCache' = EmptyMap
    /\ uncached' = <<>>
    /\ batch_start' = 0
    /\ attempt' = 0
    /\ scoredRun' = <<>>
    /\ attempt_log' = <<>>
    /\ sent' = {}
    /\ enrich_at_call' = EmptyMap
    /\ UNCHANGED <<runNo, fellBack, score_file, enrich_file>>

\* the next run of main, after one that returned, raised or exited: a new
\* process applies config.json; with no commits it exits (sys.exit(1)) before
\* it reads a cache; load_enrich_cache (with --enrich) and load_score_cache
\* give what the files hold
RunAgain ==
    /\ runPc = "ended"
    /\ runNo < MaxRuns
    /\ runNo' = runNo + 1
    /\ settings' \in Settings
    /\ runArgs' \in {a \in [enrich : BOOLEAN, key : BOOLEAN] : a.key => a.enrich}
    /\ runCommits' \in LaterCommits
    /\ runPc' = IF runCommits' = <<>> THEN "exited"
                ELSE IF runArgs'.enrich THEN "enrich" ELSE "score"
    /\ enrich_cache' = IF runArgs'.enrich /\ runCommits' # <<>>
                       THEN enrich_file ELSE EmptyMap
    /\ scoreCache' = IF runCommits' # <<>> THEN score_file ELSE EmptyMap
    /\ fellBack' = fellBack \cap DOMAIN enrich_file
    /\ uncached' = <<>>
    /\ batch_start' = 0
    /\ attempt' = 0
    /\ scoredRun' = <<>>
    /\ attempt_log' = <<>>
    /\ sent' = {}
    /\ enrich_at_call' = EmptyMap
    /\ UNCHANGED <<score_file, enrich_file>>

-----------------------------------------------------------------------------
(* fit_models(monthly_data, epoch_date).                                   *)
(*                                                                         *)
(* The monthly series is read through its sophistication values (in        *)
(* thousandths) and the last cumulative_commits and cumulative_capability. *)
(* A date is its proleptic ordinal (date.toordinal()), NoDate standing for *)
(* None or an absent key.  The two logistic fits are grid searches for the *)
(* best R2 over math.exp on the cumulative series, which the model does    *)
(* not hold: the winning grid point (L, and r and t_mid in tenths) is a    *)
(* choice from the whole grid.  What fit_models derives from the winner    *)
(* (the check at which the commit rate falls below 10, the dates) is       *)
(* computed from it.  The linear fit of the sophistication is computed     *)
(* exactly, in rationals.  Binary floating point differs from it in two    *)
(* places, tabulated for the series of the model: a slope that is exactly  *)
(* zero comes out on some series as a positive rounding residue (about     *)
(* 1e-16), and a day count that is exactly a whole number comes out on     *)
(* some series just below it.                                              *)

NoDate == 0
\* datetime.date.fromisoformat("2025-06-30").toordinal()
INCEPTION_ORDINAL == 739432
\* datetime.date.max.toordinal(): a later date raises OverflowError
MAX_ORDINAL == 3652059

\* the sophistication series: n months at one level, one of them (bump, if
\* not 0) a thousandth higher
SophSeries(n, level, bump) == [i \in 1 .. n |-> IF i = bump THEN level + 1 ELSE level]

SophLevels == {0, 100, 500}

\* (cumulative_commits[-1], cumulative_capability[-1])
FitTotals == {<<0, 0>>, <<1, 0>>, <<1, 1>>, <<2, 0>>, <<10, 12>>}

\* int(total * f) for f = num / 100 and a small whole total
IntScaled(total, num) == (total * num) \div 100

\* range(int(total * 1.01), int(total * hi), ...) is not empty: fit_logistic
\* then returns a best grid point, else None
HasLogisticFit(total, hi) == IntScaled(total, 101) < IntScaled(total, hi)

\* the sophistication series of the inputs that have a logistic fit (the
\* logistic fits do not read the sophistication)
FittedSeries == {SophSeries(3, 0, 0), SophSeries(3, 100, 0), SophSeries(3, 100, 3)}

\* every series with the totals that allow no logistic fit; the series of
\* FittedSeries with the totals that allow one; one series with both fits
FitInputs ==
    {i \in {[soph |-> SophSeries(n, level, bump), total_commits |-> t[1],
             total_capability |-> t[2]] :
                n \in 0 .. MaxFitMonths, level \in SophLevels,
                bump \in 0 .. MaxFitMonths, t \in FitTotals} :
        LET hasC == HasLogisticFit(i.total_commits, 150)
            hasK == HasLogisticFit(i.total_capability, 200)
        IN  /\ (hasC \/ hasK) => i.soph \in FittedSeries
            /\ (hasC /\ hasK) => i.soph = SophSeries(3, 100, 3)}

\* max(1, int(total * 0.02)): the step of L_range
LStep(total) == Max(1, IntScaled(total, 2))

\* the candidates of range(int(total * 1.01), int(total * hi), step)
LRange(total, hi) ==
    {L \in IntScaled(total, 101) .. IntScaled(total, hi) - 1 :
        (L - IntScaled(total, 101)) % LStep(total) = 0}

\* floor(p / q * 30.44): the days of timedelta(days=t * 30.44) for t = p / q
MonthDays(p, q) ==
    LET d == 25 * q
    IN  (p \div d) * 761 + ((p % d) * 761) \div d

\* whether p / q * 30.44 is a whole number
WholeDays(p, q) == ((p % (25 * q)) * 761) % (25 * q) = 0

\* the grid of the commit fit: L_range x range(3, 30) x range(5, 50)
CommitFits(total) == [L : LRange(total, 150), r10 : 3 .. 29, tmid10 : 5 .. 49]

\* the least j from j on with (r10 * j)^2 > 100 * (x - 400)
RECURSIVE LeastStep(_, _, _)
LeastStep(x, r10, j) ==
    IF (r10 * j) * (r10 * j) > 100 * (x - 400) THEN j ELSE LeastStep(x, r10, j + 1)

\* for check in range(int(tmid * 10), 360): the number of checks after the
\* first (check = tmid10, as int(k / 10.0 * 10) = k for k in 5 .. 49) at which
\* rate < 10 first holds.  At j tenths after t_mid the rate is
\* L * r / (2 + 2 * cosh(r * j / 10)): at t_mid it is L * r / 4, below 10 when
\* L * r10 < 400; else the search goes on, and it ends at the latest where
\* 1 + x^2 / 2 (a lower bound of cosh x) exceeds L * r / 20 - 1.  For the
\* totals of the model this leaves one value.
ZeroSteps(fit) ==
    LET x == fit.L * fit.r10
    IN  IF x < 400 THEN {0}
        ELSE (IF x = 400 THEN 0 ELSE 1) .. Max(1, LeastStep(x, fit.r10, 0))

\* the check (in tenths of a month) at which the rate is first below 10, or
\* NoDate when range(int(tmid * 10), 360) holds none
ZeroChecks(fit) ==
    {IF fit.tmid10 + j > 359 THEN NoDate ELSE fit.tmid10 + j : j \in ZeroSteps(fit)}

\* zero_date
ZeroDate(check) ==
    IF check = NoDate THEN NoDate ELSE INCEPTION_ORDINAL + MonthDays(check, 10)

\* the grid of the capability fit, range(3, 50) x range(5, 50): r and t_mid in
\* tenths (the dates do not read L)
CapabilityFits == [r10 : 3 .. 49, tmid10 : 5 .. 49]

\* floor(304400 * math.log(19)) and floor(304400 * math.log(99)): the
\* logarithms in units of 1 / 304400 (30.44 days a month, r in tenths)
LN19 == 896287
LN99 == 1398754

\* epoch + timedelta(days=(tmid + log / r) * 30.44): the days are
\* floor((3044 * tmid10 * r10 + 304400 * log) / (1000 * r10))
PctDate(fit, log) ==
    INCEPTION_ORDINAL + (3044 * fit.tmid10 * fit.r10 + log) \div (1000 * fit.r10)

\* nz: the months (from 0) whose sophistication is positive
NonZero(soph) == {t \in 0 .. Len(soph) - 1 : soph[t + 1] > 0}

\* linreg and pct100_t = (1.0 - intercept) / slope if slope > 0 else 99:
\* with n, sx, sy, sxy, sx2 as in linreg and y in thousandths, the slope is
\* b / (1000 * denom) and pct100_t is p / (n * b)
SophFit(soph) ==
    LET nz    == NonZero(soph)
        n     == Cardinality(nz)
        sx    == SumOver([t \in nz |-> t], nz)
        sy    == SumOver([t \in nz |-> soph[t + 1]], nz)
        sxy   == SumOver([t \in nz |-> t * soph[t + 1]], nz)
        sx2   == SumOver([t \in nz |-> t * t], nz)
        denom == n * sx2 - sx * sx
        b     == IF denom = 0 THEN 0 ELSE n * sxy - sx * sy
    IN  [n |-> n, b |-> b, p |-> (1000 * n - sy) * denom + sx * b, q |-> n * b]

\* the series on which linreg's n * sxy - sx * sy, exactly zero, is a positive
\* residue in binary floating point: slope > 0 holds and pct100_t is about 1e16
SlopeResidue ==
    {SophSeries(5, 100, 3), SophSeries(7, 100, 0), SophSeries(7, 100, 4),
     SophSeries(8, 100, 0), SophSeries(9, 100, 0), SophSeries(10, 100, 0),
     SophSeries(11, 100, 0), SophSeries(11, 100, 6), SophSeries(11, 500, 6),
     SophSeries(12, 100, 0)}

\* the series on which pct100_t * 30.44, exactly a whole number, is just below
\* it in binary floating point: timedelta keeps one day less
DaysBelow ==
    {SophSeries(2, 100, 2), SophSeries(5, 100, 4), SophSeries(8, 100, 6),
     SophSeries(11, 100, 8), SophSeries(2, 500, 2), SophSeries(5, 500, 4),
     SophSeries(8, 500, 6)}

\* OverflowError from timedelta(days=...) or from epoch_date + timedelta
Overflowed == 0 - 1

\* the sophistication block: the pct_100_date, or Overflowed
Pct100(soph) ==
    LET f    == SophFit(soph)
        late == INCEPTION_ORDINAL + MonthDays(99, 1)
        days == MonthDays(f.p, f.q) -
                    (IF WholeDays(f.p, f.q) /\ soph \in DaysBelow THEN 1 ELSE 0)
    IN  IF f.b > 0
        THEN IF INCEPTION_ORDINAL + days > MAX_ORDINAL
             THEN Overflowed ELSE INCEPTION_ORDINAL + days
        ELSE IF f.b = 0 /\ soph \in SlopeResidue THEN Overflowed
        ELSE late

\* avg_ordinal = sum(d.toordinal() for d in dates_for_avg) // len(dates_for_avg)
AvgOrdinal_Ceiling(dates) ==
    (SumOver(dates, DOMAIN dates) + Len(dates) - 1) \div Len(dates)
AvgOrdinal(dates) == SumOver(dates, DOMAIN dates) \div Len(dates)

\* dates_for_avg, from the models fitted
DatesForAvg(models) ==
    (IF models.has_commit_rate /\ models.zero_date # NoDate
     THEN <<models.zero_date>> ELSE <<>>)
    \o (IF models.has_capability
        THEN <<models.pct_95_date, models.pct_99_date>> ELSE <<>>)
    \o (IF models.has_sophistication THEN <<models.pct_100_date>> ELSE <<>>)

\* the convergence date of the models fitted
Convergence(models) ==
    IF DatesForAvg(models) = <<>> THEN NoDate ELSE AvgOrdinal(DatesForAvg(models))

NoModels ==
    [done |-> FALSE, raised |-> None,
     has_commit_rate |-> FALSE, zero_date |-> NoDate,
     has_capability |-> FALSE, pct_95_date |-> NoDate, pct_99_date |-> NoDate,
     has_sophistication |-> FALSE, pct_100_date |-> NoDate,
     convergence_date |-> NoDate]

\* the returns of fit_models on an input, one for each winner of the two
\* grid searches
fit_models(input) ==
    LET hasC == HasLogisticFit(input.total_commits, 150)
        hasK == HasLogisticFit(input.total_capability, 200)
        hasS == Cardinality(NonZero(input.soph)) >= 2
        d100 == IF hasS THEN Pct100(input.soph) ELSE NoDate
        zeros == IF hasC
                 THEN UNION {ZeroChecks(c) : c \in CommitFits(input.total_commits)}
                 ELSE {NoDate}
        caps == IF hasK THEN CapabilityFits ELSE {[r10 |-> 3, tmid10 |-> 5]}
    IN  {IF d100 = Overflowed
         THEN [NoModels EXCEPT !.done = TRUE, !.raised = "OverflowError"]
         ELSE LET models ==
                    [NoModels EXCEPT
                        !.done = TRUE,
                        !.has_commit_rate = hasC,
                        !.zero_date = IF hasC THEN ZeroDate(z) ELSE NoDate,
                        !.has_capability = hasK,
                        !.pct_95_date = IF hasK THEN PctDate(k, LN19) ELSE NoDate,
                        !.pct_99_date = IF hasK THEN PctDate(k, LN99) ELSE NoDate,
                        !.has_sophistication = hasS,
                        !.pct_100_date = IF hasS THEN d100 ELSE NoDate]
              IN  [models EXCEPT !.convergence_date = Convergence(models)] :
            z \in zeros, k \in caps}

FitIdle ==
    /\ fitInput = [soph |-> <<>>, total_commits |-> 0, total_capability |-> 0]
    /\ fitResult = NoModels

FitInit ==
    /\ fitInput \in FitInputs
    /\ fitInput.soph = <<>> => fitInput.total_commits = 0 /\ fitInput.total_capability = 0
    /\ fitResult = NoModels

FitModels ==
    /\ ~fitResult.done
    /\ fitResult' \in fit_models(fitInput)
    /\ UNCHANGED fitInput

-----------------------------------------------------------------------------
(* Specifications *)

vars == <<baseVars, stageVars>>

BaseIdle == ScoreIdle /\ LoadIdle /\ HistoryIdle /\ SaveIdle /\ ServerIdle
StageIdle == WeightIdle /\ MonthIdle /\ RunIdle /\ FitIdle

InitScore == ScoreInit /\ LoadIdle /\ HistoryIdle /\ SaveIdle /\ ServerIdle /\ StageIdle

NextScore ==
    \/ ScoreCommit /\ UNCHANGED <<loadVars, historyVars, saveVars, serverVars, stageVars>>
    \/ EnrichScore /\ UNCHANGED <<loadVars, historyVars, saveVars, serverVars, stageVars>>

SpecScore == InitScore /\ [][NextScore]_vars

InitLoad == LoadInit /\ ScoreIdle /\ HistoryIdle /\ SaveIdle /\ ServerIdle /\ StageIdle

NextLoad ==
    \/ LoadHistory /\ UNCHANGED <<scoreVars, historyVars, saveVars, serverVars, stageVars>>
    \/ LoadScoreCache /\ UNCHANGED <<scoreVars, historyVars, saveVars, serverVars, stageVars>>
    \/ LoadDiffstatCache /\ UNCHANGED <<scoreVars, historyVars, saveVars, serverVars, stageVars>>
    \/ LoadEnrichCache /\ UNCHANGED <<scoreVars, historyVars, saveVars, serverVars, stageVars>>

SpecLoad == InitLoad /\ [][NextLoad]_vars

InitHistory == HistoryInit /\ ScoreIdle /\ LoadIdle /\ SaveIdle /\ ServerIdle /\ StageIdle

NextHistory ==
    \/ RecordHistory /\ UNCHANGED <<scoreVars, loadVars, saveVars, serverVars, stageVars>>

SpecHistory == InitHistory /\ [][NextHistory]_vars

InitSave == SaveInit /\ ScoreIdle /\ LoadIdle /\ HistoryIdle /\ ServerIdle /\ StageIdle

NextSave ==
    \/ SaveBegin /\ UNCHANGED <<scoreVars, loadVars, historyVars, serverVars, stageVars>>
    \/ SaveOpen /\ UNCHANGED <<scoreVars, loadVars, historyVars, serverVars, stageVars>>
    \/ SaveWrite /\ UNCHANGED <<scoreVars, loadVars, historyVars, serverVars, stageVars>>
    \/ SaveCrash /\ UNCHANGED <<scoreVars, loadVars, historyVars, serverVars, stageVars>>

SpecSave == InitSave /\ [][NextSave]_vars

InitServer == ServerInit /\ ScoreIdle /\ LoadIdle /\ HistoryIdle /\ SaveIdle /\ StageIdle

NextServer ==
    \/ HandleScan /\ UNCHANGED <<scoreVars, loadVars, historyVars, saveVars, stageVars>>
    \/ HandlerAcquire /\ UNCHANGED <<scoreVars, loadVars, historyVars, saveVars, stageVars>>
    \/ HandlerCheck /\ UNCHANGED <<scoreVars, loadVars, historyVars, saveVars, stageVars>>
    \/ HandlerReject /\ UNCHANGED <<scoreVars, loadVars, historyVars, saveVars, stageVars>>
    \/ HandlerRelease /\ UNCHANGED <<scoreVars, loadVars, historyVars, saveVars, stageVars>>
    \/ HandlerRespond /\ UNCHANGED <<scoreVars, loadVars, historyVars, saveVars, stageVars>>
    \/ HandlerSpawn /\ UNCHANGED <<scoreVars, loadVars, historyVars, saveVars, stageVars>>
    \/ (\E t \in DOMAIN threads : ScanStart(t))
          /\ UNCHANGED <<scoreVars, loadVars, historyVars, saveVars, stageVars>>
    \/ (\E t \in DOMAIN threads : ScanEnd(t))
          /\ UNCHANGED <<scoreVars, loadVars, historyVars, saveVars, stageVars>>
    \/ (\E t \in DOMAIN threads : ScanAcquire(t))
          /\ UNCHANGED <<scoreVars, loadVars, historyVars, saveVars, stageVars>>
    \/ (\E t \in DOMAIN threads : ScanReset(t))
          /\ UNCHANGED <<scoreVars, loadVars, historyVars, saveVars, stageVars>>

SpecServer == InitServer /\ [][NextServer]_vars

InitWeight == WeightInit /\ BaseIdle /\ MonthIdle /\ RunIdle /\ FitIdle

NextWeight ==
    \/ ApplyDiffstatWeight /\ UNCHANGED <<baseVars, monthVars, runVars, fitVars>>

SpecWeight == InitWeight /\ [][NextWeight]_vars

InitMonthly == MonthInit /\ BaseIdle /\ WeightIdle /\ RunIdle /\ FitIdle

NextMonthly ==
    \/ AggregateMonth /\ UNCHANGED <<baseVars, weightVars, runVars, fitVars>>

SpecMonthly == InitMonthly /\ [][NextMonthly]_vars

InitRun == RunInit /\ BaseIdle /\ WeightIdle /\ MonthIdle /\ FitIdle

NextRun ==
    \/ EnrichNoKey /\ UNCHANGED <<baseVars, weightVars, monthVars, fitVars>>
    \/ EnrichBegin /\ UNCHANGED <<baseVars, weightVars, monthVars, fitVars>>
    \/ AttemptRetry /\ UNCHANGED <<baseVars, weightVars, monthVars, fitVars>>
    \/ AttemptExhausted /\ UNCHANGED <<baseVars, weightVars, monthVars, fitVars>>
    \/ AttemptUncaught /\ UNCHANGED <<baseVars, weightVars, monthVars, fitVars>>
    \/ AttemptOk /\ UNCHANGED <<baseVars, weightVars, monthVars, fitVars>>
    \/ ScoreNext /\ UNCHANGED <<baseVars, weightVars, monthVars, fitVars>>
    \/ ScoreEnd /\ UNCHANGED <<baseVars, weightVars, monthVars, fitVars>>

SpecRun == InitRun /\ [][NextRun]_vars

\* the steps of the run's own code, and the end of a call of the classifier
\* (with the sleep that follows a failed one)
OwnSteps ==
    (EnrichNoKey \/ EnrichBegin \/ ScoreNext \/ ScoreEnd)
        /\ UNCHANGED <<baseVars, weightVars, monthVars, fitVars>>
CallEnds == ClassifierCallEnds /\ UNCHANGED <<baseVars, weightVars, monthVars, fitVars>>

\* the run's own code goes on when it can; a call of the classifier ends
\* when the server lets it: urlopen(req, timeout=120) bounds the wait for
\* each operation on the socket, not the length of the call
\* (the runs with --enrich, from a checkout without score cache)
InitRunFair == InitRun /\ runArgs.enrich /\ scoreCache = EmptyMap
SpecRunFair == InitRunFair /\ [][NextRun]_vars /\ WF_vars(OwnSteps)

\* runs of main one after another, from a checkout without cache files
InitRuns ==
    /\ InitRun
    /\ scoreCache = EmptyMap
    /\ enrich_cache = EmptyMap

NextRuns ==
    \/ EnrichNoKey /\ UNCHANGED <<baseVars, weightVars, monthVars, fitVars>>
    \/ EnrichBegin /\ UNCHANGED <<baseVars, weightVars, monthVars, fitVars>>
    \/ AttemptRetry /\ UNCHANGED <<baseVars, weightVars, monthVars, fitVars>>
    \/ AttemptExhausted /\ UNCHANGED <<baseVars, weightVars, monthVars, fitVars>>
    \/ AttemptUncaught /\ UNCHANGED <<baseVars, weightVars, monthVars, fitVars>>
    \/ AttemptOk /\ UNCHANGED <<baseVars, weightVars, monthVars, fitVars>>
    \/ ScoreNext /\ UNCHANGED <<baseVars, weightVars, monthVars, fitVars>>
    \/ ScoreEnd /\ UNCHANGED <<baseVars, weightVars, monthVars, fitVars>>
    \/ ProcessEnd /\ UNCHANGED <<baseVars, weightVars, monthVars, fitVars>>
    \/ RunAgain /\ UNCHANGED <<baseVars, weightVars, monthVars, fitVars>>

SpecRuns == InitRuns /\ [][NextRuns]_vars

InitFit == FitInit /\ BaseIdle /\ WeightIdle /\ MonthIdle /\ RunIdle

NextFit ==
    \/ FitModels /\ UNCHANGED <<baseVars, weightVars, monthVars, runVars>>

SpecFit == InitFit /\ [][NextFit]_vars

-----------------------------------------------------------------------------
(* Claims about the scorer (checked under SpecScore) *)

\* the message with the hit counts of m and no "merge pull request" in it
WithoutMerge(m) == [m EXCEPT !.merge = FALSE]

\* C3 (as stated): every message in which no category pattern matches scores
\* exactly 0.5 with an empty category map.
CE_C3 ==
    (scoreResult.done /\ Matched(msg) = {}) =>
        (scoreResult.total = Half /\ DOMAIN scoreResult.cats = {})

\* C3 (amended): a message in which no category pattern matches gets an empty
\* category map, and a total of exactly 0.5 unless it carries the merge/feature
\* signal, in which case its total is the flat bonus 2.
Thm_C3 ==
    (scoreResult.done /\ Matched(msg) = {}) =>
        /\ DOMAIN scoreResult.cats = {}
        /\ scoreResult.total = IF msg.merge /\ msg.feat THEN 2 * Unit ELSE Half

Wit_C3 ==
    /\ scoreResult.done
    /\ Matched(msg) = {}
    /\ msg.merge /\ msg.feature
    /\ scoreResult.total = 2 * Unit

\* C4: a message with "merge pull request" and "feat"/"feature" scores strictly
\* higher than a message with the same per-category hit counts without the signal.
CE_C4 ==
    (scoreResult.done /\ msg.merge /\ msg.feat) =>
        scoreResult.total > score_commit(WithoutMerge(msg)).total

\* C5: the category map holds exactly the categories with at least one matching
\* pattern, each with weight * min(number of matching patterns, 3).
Thm_C5 ==
    scoreResult.done =>
        /\ DOMAIN scoreResult.cats = {c \in Categories : msg.hits[c] >= 1}
        /\ \A c \in DOMAIN scoreResult.cats :
              scoreResult.cats[c] =
                  settings.categories[c].weight * (IF msg.hits[c] > 3 THEN 3 ELSE msg.hits[c])

Wit_C5 ==
    /\ scoreResult.done
    /\ \E c \in Categories : msg.hits[c] > 3 /\ scoreResult.cats[c] = 3 * settings.categories[c].weight
    /\ \E c \in Categories : msg.hits[c] = 0 /\ c \notin DOMAIN scoreResult.cats

\* C6: enrich_score drops the names that are no rubric category, clamps each
\* remaining hit count into [1,3] before multiplying it by the weight, returns
\* the sum of the products as the total, and 0.5 with an empty map when no known
\* category is given.
Thm_C6 ==
    enrichResult.done =>
        LET known   == DOMAIN rawCats \cap Categories
            clamped == [c \in known |->
                          IF rawCats[c] < 1 THEN 1
                          ELSE IF rawCats[c] > 3 THEN 3 ELSE rawCats[c]]
            product == [c \in known |-> settings.categories[c].weight * clamped[c]]
        IN  /\ DOMAIN enrichResult.cats = known
            /\ \A c \in known : enrichResult.cats[c] = product[c]
            /\ known # {} => enrichResult.total = Unit * SumOver(product, known)
            /\ known = {} => enrichResult.total = Half

Wit_C6 ==
    /\ enrichResult.done
    /\ \E n \in DOMAIN rawCats : n \notin Categories
    /\ \E c \in DOMAIN rawCats \cap Categories :
          rawCats[c] < 1 /\ enrichResult.cats[c] = settings.categories[c].weight

-----------------------------------------------------------------------------
(* Claims about loading (checked under SpecLoad) *)

\* the file holds a JSON object
HoldsDict == loadFile.kind = "json" /\ loadFile.json.t = "dict"

\* the load returned a cache with no commit-hash entry
LoadedEmpty == loadResult.raised = None /\ DOMAIN loadResult.value.entries = {}

\* the per-kind schema of a cache entry: seven numeric fields; version, numeric
\* total and category map; category -> number map
ValidEntry(kind, e) ==
    CASE kind = "diffstat" ->
            /\ e.isdict
            /\ DiffstatKeys \subseteq DOMAIN e.f
            /\ \A k \in DiffstatKeys : e.f[k].k = "num"
      [] kind = "score" ->
            /\ e.isdict
            /\ ScoreKeys \subseteq DOMAIN e.f
            /\ e.f["total"].k = "num"
            /\ e.f["cats"].k = "dict"
      [] kind = "enrich" ->
            /\ e.isdict
            /\ \A k \in DOMAIN e.f : e.f[k].k = "num"

ValidEntriesOf(kind, entries) ==
    [h \in {x \in DOMAIN entries : ValidEntry(kind, entries[x])} |-> entries[h]]

\* C7: for each of the three caches (score, diffstat, enrichment), loading a
\* file whose stored version differs from the current version yields a cache
\* with no commit-hash entries.
CE_C7 ==
    (/\ loadResult.done
     /\ loadKind \in CacheKinds
     /\ HoldsDict
     /\ loadFile.json.v \notin {NoVersion, CurrentVersion(loadKind)}) => LoadedEmpty

\* C8: loading a cache file of the current version that holds a malformed entry
\* returns a cache without that entry and with every schema-valid entry of the
\* file.
CE_C8 ==
    (/\ loadResult.done
     /\ loadKind \in CacheKinds
     /\ HoldsDict
     /\ (loadKind = "score" \/ loadFile.json.v = CurrentVersion(loadKind))) =>
        /\ loadResult.raised = None
        /\ loadResult.value.entries = ValidEntriesOf(loadKind, loadFile.json.entries)

\* C10: loading a cache or history file that is unreadable, no valid JSON or not
\* of the expected top-level shape never raises and returns an empty state.
CE_C10 ==
    (/\ loadResult.done
     /\ \/ loadFile.kind \in {"unreadable", "bad_utf8", "bad_json"}
        \/ /\ loadFile.kind = "json"
           /\ loadFile.json.t # (IF loadKind = "history" THEN "list" ELSE "dict")) =>
        /\ loadResult.raised = None
        /\ IF loadKind = "history" THEN loadResult.value = <<>>
           ELSE DOMAIN loadResult.value.entries = {}

-----------------------------------------------------------------------------
(* Claims about the history log (checked under SpecHistory) *)

SamePair(a, b) ==
    a.convergence_date = b.convergence_date /\ a.total_commits = b.total_commits

\* C1: record_history appends no entry when the new snapshot's
\* (convergence_date, total_commits) pair equals that of the most recently
\* stored entry: the history it returns is the stored one.
CE_C1 ==
    (/\ histCall.done
     /\ histCall.raised = None
     /\ Len(histCall.before) > 0
     /\ SamePair(histCall.before[Len(histCall.before)], histCall.entry)) =>
        histCall.ret = histCall.before

-----------------------------------------------------------------------------
(* Claims about saving (checked under SpecSave) *)

\* C9: at every point during a save, and after a crash at any point of a save,
\* the cache file holds the complete previous mapping or the complete new one.
CE_C9 ==
    \/ disk = savePrev
    \/ saveCount > 0 /\ disk = FileOfCache(saveCache)

-----------------------------------------------------------------------------
(* Claims about the server (checked under SpecServer) *)

\* the run_scan threads that have not ended
InFlight == {t \in DOMAIN threads : threads[t] # "done"}

\* C2 (as stated): at most one scan run is in flight at any time, and a
\* trigger that arrives while scan_running is true is answered with
\* "already_running": it never reaches the branch that answers "started" and
\* starts a thread.
CE_C2 ==
    /\ Cardinality(InFlight) <= 1
    /\ harrived => hpc \notin {"respond", "spawn"}

\* C2 (amended): at most one scan run is in flight at any time.  A trigger
\* whose check under scan_lock finds scan_running true takes the 409 branch
\* and nothing else: the one response it writes is "already_running" (no
\* response reaches a client that has closed the connection), it starts no
\* thread, leaves scan_running true and is not queued (the handler is idle
\* again, no thread was added while it ran).  A trigger that arrived while
\* scan_running was true is answered "started" only when a run_scan thread
\* has reset the flag before the check, and then no other run is in flight.
Thm_C2 ==
    /\ [](Cardinality(InFlight) <= 1)
    /\ [](hpc \in {"reject", "release"} =>
            scan_running /\ scan_lock = "handler")
    /\ [][(hpc = "check" /\ hpc' # "check" /\ scan_running) =>
            hpc' = "reject" /\ threads' = threads /\ scan_running']_vars
    /\ [][hpc = "reject" =>
            /\ hpc' \in {"reject", "release"}
            /\ hresp' \in {hresp, "already_running", "send_failed"}
            /\ DOMAIN threads' = DOMAIN threads
            /\ scan_running']_vars
    /\ [][hpc = "release" =>
            /\ hpc' \in {"release", "idle"}
            /\ hresp' = hresp
            /\ hresp \in {"already_running", "send_failed"}
            /\ DOMAIN threads' = DOMAIN threads
            /\ scan_running']_vars
    /\ []((harrived /\ hpc \in {"respond", "spawn"}) =>
            /\ \E t \in DOMAIN threads : threads[t] = "done"
            /\ InFlight = {})

Wit_C2 ==
    /\ hresp = "already_running"
    /\ hpc = "release"
    /\ \E t \in DOMAIN threads : threads[t] = "proc"

-----------------------------------------------------------------------------
(* Claims about diffstat weighting (checked under SpecWeight) *)

\* C13: for every input (total, category map, optional diffstat), an absent
\* diffstat included, the total returned by apply_diffstat_weight is at
\* least 0.5.
CE_C13 == wResult.done => wResult.total >= Half * MScale

\* C14: apply_diffstat_weight never changes the category map passed by the
\* caller: after the call the caller's map has the keys and values it had
\* before, also when the test-lines safety bonus is granted, which appears
\* only in the returned map.
Thm_C14 ==
    wResult.done =>
        /\ wCats = wResult.before
        /\ wResult.caller = wResult.before
        /\ (wDiffstat.present /\ wDiffstat.t >= TEST_LINES_THRESHOLD) =>
              /\ ~wResult.same
              /\ DOMAIN wResult.cats = DOMAIN wResult.before \cup {"safety"}
              /\ wResult.cats["safety"] =
                    TEST_SAFETY_BONUS + (IF "safety" \in DOMAIN wResult.before
                                         THEN wResult.before["safety"] ELSE 0)
              /\ \A c \in DOMAIN wResult.before \ {"safety"} :
                    wResult.cats[c] = wResult.before[c]

\* the bonus was granted to a map without "safety": the returned map has the
\* key, the caller's map has not
Wit_C14 ==
    /\ wResult.done
    /\ wDiffstat.present
    /\ wDiffstat.t >= TEST_LINES_THRESHOLD
    /\ wResult.before = [c \in {"agents"} |-> 6]
    /\ "safety" \in DOMAIN wResult.cats
    /\ "safety" \notin DOMAIN wCats

-----------------------------------------------------------------------------
(* The history log across calls (checked under SpecHistory) *)

\* the file holds a JSON list
ValidHistory(file) == file.kind = "json" /\ file.json.t = "list"

IsPrefix(s, t) == Len(s) <= Len(t) /\ SubSeq(t, 1, Len(s)) = s

\* C19: the history log is append-only and oldest-first: the list stored
\* before a record_history call on a valid history file is a prefix of the
\* list stored after it (no entry is removed, reordered or modified).
CE_C19 ==
    [][ValidHistory(historyFile) =>
          /\ ValidHistory(historyFile')
          /\ IsPrefix(historyFile.json.items, historyFile'.json.items)]_vars

-----------------------------------------------------------------------------
(* Claims about the monthly series (checked under SpecMonthly) *)

\* C15: in the monthly series built by a run, cumulative_commits and
\* cumulative_capability are non-decreasing from every bucket to the next,
\* for any set of scored commits.
CE_C15 ==
    \A i \in 1 .. Len(monthly_data) - 1 :
        /\ monthly_data[i].cumulative_commits <= monthly_data[i + 1].cumulative_commits
        /\ monthly_data[i].cumulative_capability
              <= monthly_data[i + 1].cumulative_capability

\* C16: a month whose category scores all fall in one single high-level
\* category gets a sophistication strictly below the maximum 1.0.
CE_C16 ==
    \A i \in 1 .. Len(monthly_data) :
        (\E c \in HIGH_LEVEL_CATS : DOMAIN monthly_data[i].cats = {c}) =>
            monthly_data[i].sophistication < 1000

-----------------------------------------------------------------------------
(* Claims about enrichment and the scoring loop (checked under SpecRun) *)

\* the commit with the given hash
CommitOf(h) == runCommits[CHOOSE i \in DOMAIN runCommits : runCommits[i].hash = h]

\* the scored commit found a cache entry whose stored version is not the current one
Stale(sc) == sc.had /\ sc.held.v \notin {NoVersion, SCORE_CACHE_VERSION}

\* score_commit and apply_diffstat_weight on the commit, as a cache entry
FreshEntry(k) ==
    LET base == score_commit(k.msg)
        w    == apply_diffstat_weight(base.total, base.cats, k.ds)
    IN  [v |-> SCORE_CACHE_VERSION, total |-> w.total, cats |-> w.cats]

\* C11: in a run's scoring loop, a score-cache entry whose stored version
\* differs from SCORE_CACHE_VERSION is never used as the commit's score: the
\* commit is scored afresh and the entry is overwritten with one carrying
\* the current version.
CE_C11 ==
    \A i \in DOMAIN scoredRun :
        Stale(scoredRun[i]) =>
            /\ scoredRun[i].via # "cached"
            /\ scoreCache[scoredRun[i].hash].v = SCORE_CACHE_VERSION

\* C12: after enrich_commits returns, every commit passed to it has an
\* entry in the enrichment cache, whatever the classifier did; a batch that
\* exhausts its retries is scored entirely by the pattern scorer.
Thm_C12 ==
    (runArgs.enrich /\ runPc \in {"score", "done"}) =>
        /\ \A i \in DOMAIN runCommits : runCommits[i].hash \in DOMAIN enrich_cache
        /\ \A h \in fellBack : enrich_cache[h] = score_commit(CommitOf(h).msg).cats

\* enrich_commits returned after two batches: the first, of
\* ENRICH_BATCH_SIZE commits, exhausted its retries and every commit of it
\* has the pattern scorer's entry; the second was classified
Wit_C12 ==
    /\ runArgs.key
    /\ runPc = "score"
    /\ Len(uncached) = ENRICH_BATCH_SIZE + 1
    /\ Len(attempt_log) = 2
    /\ Len(attempt_log[1]) = ENRICH_MAX_RETRIES
    /\ attempt_log[1][ENRICH_MAX_RETRIES].outcome = "failed"
    /\ attempt_log[2] = <<[outcome |-> "ok", slept |-> 0]>>
    /\ fellBack = {uncached[i].hash : i \in 1 .. ENRICH_BATCH_SIZE}
    /\ \A i \in DOMAIN runCommits : runCommits[i].hash \in DOMAIN enrich_cache

\* C20: for every commit that falls back to pattern scoring during
\* enrichment, the base score the run uses for it before diffstat weighting
\* equals score_commit(message), in total and per category.
CE_C20 ==
    \A i \in DOMAIN scoredRun :
        scoredRun[i].hash \in fellBack =>
            /\ scoredRun[i].base_total = score_commit(CommitOf(scoredRun[i].hash).msg).total
            /\ scoredRun[i].base_cats = score_commit(CommitOf(scoredRun[i].hash).msg).cats

-----------------------------------------------------------------------------
(* Claims about fit_models (checked under SpecFit) *)

\* the number and the sum of the ordinals of the milestone dates available
MilestoneCount(m) ==
    (IF m.has_commit_rate /\ m.zero_date # NoDate THEN 1 ELSE 0)
    + (IF m.has_capability THEN 2 ELSE 0)
    + (IF m.has_sophistication THEN 1 ELSE 0)

MilestoneSum(m) ==
    (IF m.has_commit_rate /\ m.zero_date # NoDate THEN m.zero_date ELSE 0)
    + (IF m.has_capability THEN m.pct_95_date + m.pct_99_date ELSE 0)
    + (IF m.has_sophistication THEN m.pct_100_date ELSE 0)

\* C17: the convergence date returned by fit_models is the date whose
\* ordinal is the floor of the unweighted mean of the ordinals of exactly
\* the available milestone dates; a missing component contributes nothing,
\* and with no milestone no convergence date is emitted.
Thm_C17 ==
    (fitResult.done /\ fitResult.raised = None) =>
        LET cnt == MilestoneCount(fitResult)
            sum == MilestoneSum(fitResult)
            avg == fitResult.convergence_date
        IN  IF cnt = 0 THEN avg = NoDate
            ELSE avg * cnt <= sum /\ sum < (avg + 1) * cnt

\* three milestones (no commit-rate model) whose mean is no whole number
Wit_C17 ==
    /\ fitResult.done
    /\ fitResult.raised = None
    /\ ~fitResult.has_commit_rate
    /\ fitResult.has_capability
    /\ fitResult.has_sophistication
    /\ MilestoneSum(fitResult) % 3 # 0
    /\ fitResult.convergence_date # NoDate

\* C18: fit_models is total: for every monthly series (empty, one month,
\* constant cumulative values, zero totals, constant or barely changing
\* sophistication) it returns a model map without raising.
CE_C18 == fitResult.done => fitResult.raised = None


-----------------------------------------------------------------------------
(* Further claims about score_commit (checked under SpecScore) *)

\* C24: for a message with 'merge pull request' and 'feat'/'feature' whose
\* category scores sum to T, score_commit returns 1.5 * T when T is
\* positive (odd or even), and the flat bonus 2 when T is zero.
CE_C24 ==
    (scoreResult.done /\ MergeFeatSignal(msg)) =>
        LET T == SumOver(scoreResult.cats, DOMAIN scoreResult.cats)
        IN  IF T > 0 THEN 2 * scoreResult.total = 3 * T * Unit
            ELSE scoreResult.total = FlatBonus * Unit


-----------------------------------------------------------------------------
(* Further claims about apply_diffstat_weight (checked under SpecWeight) *)

\* C27: with the built-in thresholds and bonuses, the factor built before
\* clamping lies within 0.68 .. 1.5, so within [MULTIPLIER_FLOOR,
\* MULTIPLIER_CEILING], and the clamp leaves it as it is (no warning).
Thm_C27 ==
    (wResult.done /\ wDiffstat.present) =>
        LET raw == RawMultiplier(wDiffstat)
        IN  /\ 6800 <= raw /\ raw <= 15000
            /\ MULTIPLIER_FLOOR <= raw /\ raw <= MULTIPLIER_CEILING
            /\ ClampMultiplier(raw) = raw

\* a config-only, deletion-heavy diffstat: the factor is 0.8 * 0.85
Wit_C27 ==
    /\ wResult.done
    /\ wDiffstat.present
    /\ wDiffstat.c > 0
    /\ wDiffstat.d > wDiffstat.a
    /\ RawMultiplier(wDiffstat) = 6800


-----------------------------------------------------------------------------
(* Further claims about fit_models (checked under SpecFit) *)

\* C26: in both logistic fits every candidate asymptote L of the grid
\* search is strictly greater than the last cumulative value, for every
\* positive total.
CE_C26 ==
    fitResult.done =>
        /\ \A L \in LRange(fitInput.total_commits, 150) : L > fitInput.total_commits
        /\ \A L \in LRange(fitInput.total_capability, 200) : L > fitInput.total_capability


-----------------------------------------------------------------------------
(* Further claims about the monthly series (checked under SpecMonthly) *)

\* C29: every scored commit is counted in exactly one monthly bucket: the
\* last bucket's cumulative_commits equals the total_commits of the run
\* (len(commits)), also with commits dated outside all_months.
CE_C29 ==
    Len(monthly_data) = Cardinality(AllMonths) =>
        monthly_data[Len(monthly_data)].cumulative_commits = Len(scored)


-----------------------------------------------------------------------------
(* Further claims about a run (checked under SpecRun, SpecRunFair and      *)
(* SpecRuns)                                                               *)

\* the hashes whose enrichment entry the call of enrich_commits has written
WrittenByCall ==
    IF runArgs.enrich /\ runPc # "enrich"
    THEN DOMAIN enrich_cache \ DOMAIN enrich_at_call ELSE {}

\* C21: every entry that enrich_commits writes into the enrichment cache
\* maps known category names to hit counts within 1 .. 3, on the
\* classifier path and on the fallback paths alike.
CE_C21 ==
    \A h \in WrittenByCall :
        \A c \in DOMAIN enrich_cache[h] :
            c \in Categories /\ enrich_cache[h][c] \in 1 .. 3

\* C22: no malformed cache entry aborts a run: the scoring loop never
\* raises, whatever entry it meets.
CE_C22 == [][runPc = "score" => runPc' # "raised"]_vars

\* the calls of one batch: at most ENRICH_MAX_RETRIES, none after a
\* well-formed response (or an exception that leaves enrich_commits), and
\* after the i-th failed call a sleep of 2 ^ (i - 1) seconds, none after
\* the last
BatchLogOk(log) ==
    /\ Len(log) <= ENRICH_MAX_RETRIES
    /\ \A i \in DOMAIN log :
          /\ log[i].outcome # "failed" => i = Len(log)
          /\ log[i].slept = IF log[i].outcome = "failed" /\ i < ENRICH_MAX_RETRIES
                            THEN 2 ^ (i - 1) ELSE 0
          /\ log[i].slept \in {0, 1, 2}

\* enrich_commits is not running
EnrichReturned == runPc \notin {"enrich", "attempt"}

CE_C28 ==
    \A i \in DOMAIN scoredRun :
        scoredRun[i].via = "cached" =>
            LET base == score_commit(runCommits[i].msg)
                w    == apply_diffstat_weight(base.total, base.cats, runCommits[i].ds)
            IN  scoredRun[i].total = w.total /\ scoredRun[i].cats = w.cats

\* C30: enrich_commits never sends to the classifier, and never changes
\* the entry of, a commit whose hash has an entry in the enrichment cache
\* when it is called, over any sequence of runs.
Thm_C30 ==
    \A h \in DOMAIN enrich_at_call :
        /\ h \notin sent
        /\ h \in DOMAIN enrich_cache
        /\ enrich_cache[h] = enrich_at_call[h]

\* a second run that found an entry written by the fallback of the first
\* and sent another commit to the classifier
Wit_C30 ==
    /\ runNo = 2
    /\ runPc = "done"
    /\ sent # {}
    /\ \E h \in DOMAIN enrich_at_call : h \in fellBack


-----------------------------------------------------------------------------
(* Further claims about the server (checked under SpecServer) *)

\* C23: scan_running is never left true while no scan thread exists, also
\* when writing the "started" response fails: once handle_scan has ended,
\* scan_running is true only while a run_scan thread has not ended.
CE_C23 == (hpc = "idle" /\ scan_running) => InFlight # {}

====
